---- MODULE Spec2Model ----
(***************************************************************************)
(* A model of prettytable-rs: cells, rows, table formats, the table and    *)
(* its slices (src/src/cell.rs, row.rs, format.rs, utils.rs, lib.rs) and   *)
(* the tree prefix builder (src/src/tree.rs).                              *)
(*                                                                         *)
(* A string is a sequence of characters.  A character is a one-character   *)
(* string, or "U+XXXX" for a code point outside ASCII.  Indices of the     *)
(* program are 0-based and are kept 0-based in the operators' parameters.  *)
(* A sink receives a sequence of writes, each write a string.              *)
(***************************************************************************)
EXTENDS Integers, Sequences, FiniteSets

VARIABLES
    format,     \* Table.format
    titles,     \* Table.titles: None or a row
    rows,       \* Table.rows
    last,       \* the most recent call on the table and what it returned
    cell,       \* the Cell under construction/print in the cell specification
    cellOut,    \* the most recent Cell::print call and the writes it issued
    rowObj,     \* a Row of its own (row.rs tests: let mut row = Row::from(..))
    rowOut,     \* the most recent call on that row
    items,      \* provide_prefix: the items
    pred,       \* provide_prefix: the predicate is_parent_of
    pc,         \* provide_prefix: the loop being run
    next_i,     \* provide_prefix: the index the running loop is at
    current,    \* make_tree_by_reverse_depth_first: current
    nodes,      \* make_tree_by_reverse_depth_first, provide_prefix: nodes
    prefixes,   \* provide_prefix: the strings returned
    tab,        \* a tabprint::Table
    tabOut      \* the most recent call on that table and what it returned

tableVars == <<format, titles, rows, last>>
cellVars == <<cell, cellOut>>
rowVars == <<rowObj, rowOut>>
treeVars == <<items, pred, pc, next_i, current, nodes, prefixes>>
tabVars == <<tab, tabOut>>
vars == <<format, titles, rows, last, cell, cellOut, rowObj, rowOut,
          items, pred, pc, next_i, current, nodes, prefixes, tab, tabOut>>

\* Option<T>: None is the empty sequence, Some(x) the one-element sequence
None == <<>>
Some(x) == <<x>>
unwrap(o) == o[1]

\* ------------------------------------------------------------------ bounds

MaxRows == 3
MaxCols == 2
MaxLen == 3
MaxFill == 3
MaxItems == 4
MaxStyle == 2
MaxPad == 2
MaxSpec == 3

\* ------------------------------------------------------------------ text

RECURSIVE Concat(_)
Concat(ss) == IF ss = <<>> THEN <<>> ELSE Head(ss) \o Concat(Tail(ss))

Max2(a, b) == IF a > b THEN a ELSE b

\* utils.rs:10, the not(windows) build
NEWLINE == <<"\n">>

\* A wide (CJK) glyph: two display columns (cell.rs tests::print_cjk)
WIDE == "U+7531"

\* unicode_width: the display width of one character
CharWidth(c) == IF c = WIDE THEN 2 ELSE 1

\* UnicodeWidthStr::width, as called in cell.rs:29 and utils.rs:49
RECURSIVE UnicodeWidthStr_width(_)
UnicodeWidthStr_width(s) ==
    IF s = <<>> THEN 0 ELSE CharWidth(Head(s)) + UnicodeWidthStr_width(Tail(s))

\* The index (1-based) of the first "\n" of s, 0 if there is none
RECURSIVE FindNewline(_, _)
FindNewline(s, k) ==
    IF k > Len(s) THEN 0
    ELSE IF s[k] = "\n" THEN k ELSE FindNewline(s, k + 1)

\* str::lines as called in cell.rs:26: the lines are terminated, not
\* separated, by "\n": the empty string has no line, and a final "\n"
\* opens no further line.
RECURSIVE str_lines(_)
str_lines(s) ==
    IF s = <<>> THEN <<>>
    ELSE LET k == FindNewline(s, 1)
         IN IF k = 0 THEN <<s>>
            ELSE <<SubSeq(s, 1, k - 1)>> \o str_lines(SubSeq(s, k + 1, Len(s)))

\* vec![fill; n]
Fill(fill, n) == [k \in 1..n |-> fill]

\* The bytes a sequence of writes delivers to a sink that accepts them all
Flat(writes) == Concat(writes)

\* ------------------------------------------------------------------ cell

Alignments == {"LEFT", "CENTER", "RIGHT"}

RECURSIVE MaxLineWidth(_, _)
MaxLineWidth(content, width) ==
    IF content = <<>> THEN width
    ELSE LET l == UnicodeWidthStr_width(Head(content))
         IN MaxLineWidth(Tail(content), IF l > width THEN l ELSE width)

Cell_new_align(string, align) ==
    LET content == str_lines(string)
    IN [content |-> content,
        width |-> MaxLineWidth(content, 0),
        align |-> align,
        style |-> <<>>]

Cell_new(string) == Cell_new_align(string, "LEFT")

Cell_default ==
    [content |-> << <<>> >>, width |-> 0, align |-> "LEFT", style |-> <<>>]

Cell_get_height(c) == Len(c.content)

Cell_get_width(c) == c.width

\* [String]::join(sep)
RECURSIVE join(_, _)
join(ss, sep) ==
    IF ss = <<>> THEN <<>>
    ELSE IF Len(ss) = 1 THEN Head(ss)
    ELSE Head(ss) \o sep \o join(Tail(ss), sep)

Cell_get_content(c) == join(c.content, <<"\n">>)

\* utils.rs print_align: the writes it issues, in order
\* A faulty variant of print_align: CENTER puts the odd extra fill on the left
print_align_extra_left(align, text, fill, size) ==
    LET text_len == UnicodeWidthStr_width(text)
        nfill == IF text_len < size THEN size - text_len ELSE 0
    IN CASE align = "LEFT" -> <<text, Fill(fill, nfill)>>
         [] align = "RIGHT" -> <<Fill(fill, nfill), text, Fill(fill, 0)>>
         [] align = "CENTER" ->
                <<Fill(fill, nfill - (nfill \div 2)), text, Fill(fill, nfill \div 2)>>

print_align(align, text, fill, size) ==
    LET text_len == UnicodeWidthStr_width(text)
        nfill == IF text_len < size THEN size - text_len ELSE 0
    IN CASE align = "LEFT" -> <<text, Fill(fill, nfill)>>
         [] align = "RIGHT" -> <<Fill(fill, nfill), text, Fill(fill, 0)>>
         [] align = "CENTER" ->
                <<Fill(fill, nfill \div 2), text, Fill(fill, nfill - (nfill \div 2))>>

\* The sixth argument Cell::print passes to print_align (cell.rs:186): the
\* print_align of utils.rs takes five.  With skip_right_fill the fill after
\* the text, which is print_align's last write, is not written.
suppress_trailing_fill(writes, skip_right_fill) ==
    IF skip_right_fill THEN SubSeq(writes, 1, Len(writes) - 1) ELSE writes

Cell_print(c, idx, col_width, skip_right_fill) ==
    LET s == IF idx < Len(c.content) THEN c.content[idx + 1] ELSE <<>>
    IN suppress_trailing_fill(print_align(c.align, s, " ", col_width),
                              skip_right_fill)

\* char::encode_utf8 behind str::as_bytes: U+7531 takes three bytes
utf8(ch) == IF ch = WIDE THEN <<"0xE7", "0x94", "0xB1">> ELSE <<ch>>

\* text.as_bytes() (utils.rs:56); the fills are `fill as u8`, one byte each
as_bytes(text) == Concat([k \in 1..Len(text) |-> utf8(text[k])])

\* try!(out.write(buf)); for each buffer of print_align in turn (utils.rs:
\* 53-57), out a sink with room for `room` more bytes: write takes as many
\* bytes of the buffer as it has room for and returns Ok(that number), which
\* try! unwraps and the statement drops.  The bytes delivered and the result
\* of print_align.
RECURSIVE print_align_into(_, _)
print_align_into(writes, room) ==
    IF writes = <<>> THEN [delivered |-> <<>>, ret |-> "Ok"]
    ELSE LET buf == as_bytes(Head(writes))
             amt == IF Len(buf) < room THEN Len(buf) ELSE room
             rest == print_align_into(Tail(writes), room - amt)
         IN [delivered |-> SubSeq(buf, 1, amt) \o rest.delivered,
             ret |-> rest.ret]

\* Cell::style: an attribute is added
Cell_style(c, attr) == [c EXCEPT !.style = Append(@, attr)]

\* Cell::reset_style
Cell_reset_style(c) == [c EXCEPT !.style = <<>>, !.align = "LEFT"]

\* Cell::align
Cell_align(c, align) == [c EXCEPT !.align = align]

\* Cell::style_spec: let color = match c { .. }; None for the arm `_`
color_of(ch) ==
    CASE ch = "r" -> Some("RED")
      [] ch = "R" -> Some("BRIGHT_RED")
      [] ch = "b" -> Some("BLUE")
      [] ch = "B" -> Some("BRIGHT_BLUE")
      [] ch = "g" -> Some("GREEN")
      [] ch = "G" -> Some("BRIGHT_GREEN")
      [] ch = "y" -> Some("YELLOW")
      [] ch = "Y" -> Some("BRIGHT_YELLOW")
      [] ch = "c" -> Some("CYAN")
      [] ch = "C" -> Some("BRIGHT_CYAN")
      [] ch = "m" -> Some("MAGENTA")
      [] ch = "M" -> Some("BRIGHT_MAGENTA")
      [] ch = "w" -> Some("WHITE")
      [] ch = "W" -> Some("BRIGHT_WHITE")
      [] ch = "d" -> Some("BLACK")
      [] ch = "D" -> Some("BRIGHT_BLACK")
      [] OTHER -> None

\* Attr::ForegroundColor(color), Attr::BackgroundColor(color)
ForegroundColor(color) == "ForegroundColor(" \o color \o ")"

BackgroundColor(color) == "BackgroundColor(" \o color \o ")"

\* Cell::style_spec: for c in spec.chars() { .. }
RECURSIVE style_spec_chars(_, _, _, _)
style_spec_chars(c, spec, foreground, background) ==
    IF spec = <<>> THEN c
    ELSE LET ch == Head(spec)
         IN IF foreground \/ background
            THEN IF color_of(ch) = None
                 THEN style_spec_chars(c, Tail(spec), FALSE, FALSE)
                 ELSE LET color == unwrap(color_of(ch))
                          styled ==
                              IF foreground
                              THEN Cell_style(c, ForegroundColor(color))
                              ELSE IF background
                              THEN Cell_style(c, BackgroundColor(color))
                              ELSE c
                      IN style_spec_chars(styled, Tail(spec), FALSE, FALSE)
            ELSE CASE ch = "F" ->
                        style_spec_chars(c, Tail(spec), TRUE, background)
                   [] ch = "B" ->
                        style_spec_chars(c, Tail(spec), foreground, TRUE)
                   [] ch = "b" ->
                        style_spec_chars(Cell_style(c, "Bold"), Tail(spec),
                                         foreground, background)
                   [] ch = "i" ->
                        style_spec_chars(Cell_style(c, "Italic(true)"),
                                         Tail(spec), foreground, background)
                   [] ch = "u" ->
                        style_spec_chars(Cell_style(c, "Underline(true)"),
                                         Tail(spec), foreground, background)
                   [] ch = "c" ->
                        style_spec_chars(Cell_align(c, "CENTER"), Tail(spec),
                                         foreground, background)
                   [] ch = "l" ->
                        style_spec_chars(Cell_align(c, "LEFT"), Tail(spec),
                                         foreground, background)
                   [] ch = "r" ->
                        style_spec_chars(Cell_align(c, "RIGHT"), Tail(spec),
                                         foreground, background)
                   [] OTHER ->
                        style_spec_chars(c, Tail(spec), foreground, background)

\* A faulty variant of Cell_style_spec: the style is not reset first
Cell_style_spec_no_reset(c, spec) == style_spec_chars(c, spec, FALSE, FALSE)

Cell_style_spec(c, spec) ==
    style_spec_chars(Cell_reset_style(c), spec, FALSE, FALSE)

\* A faulty variant of ignored: an attribute out of the sink's colors fails
ignored_not_color(res) == res \in {"Ok", "NotSupported"}

\* The results of out.attr and out.reset that Cell::print_term goes on
\* after: Ok(..) | Err(NotSupported) | Err(ColorOutOfRange)
ignored(res) == res \in {"Ok", "NotSupported", "ColorOutOfRange"}

\* for a in &self.style { match out.attr(*a) {..} }: the calls made on the
\* sink, which answers the k-th of them by attr_res[k], and the result
RECURSIVE apply_style(_, _)
apply_style(style, attr_res) ==
    IF style = <<>> THEN [ops |-> <<>>, ret |-> "Ok"]
    ELSE LET op == [op |-> "attr", arg |-> <<Head(style)>>,
                    res |-> Head(attr_res)]
         IN IF ignored(Head(attr_res))
            THEN LET rest == apply_style(Tail(style), Tail(attr_res))
                 IN [ops |-> <<op>> \o rest.ops, ret |-> rest.ret]
            ELSE [ops |-> <<op>>, ret |-> "Err"]

\* Cell::print_term on a sink that answers the k-th attr by attr_res[k],
\* the writes by write_res (an error stops at the first write) and reset by
\* reset_res
Cell_print_term(c, idx, col_width, skip_right_fill, attr_res, write_res, reset_res) ==
    LET styled == apply_style(c.style, attr_res)
        writes == Cell_print(c, idx, col_width, skip_right_fill)
        written == [k \in 1..Len(writes) |->
                       [op |-> "write", arg |-> writes[k], res |-> write_res]]
        reset == [op |-> "reset", arg |-> <<>>, res |-> reset_res]
    IN IF styled.ret # "Ok" THEN styled
       ELSE IF write_res # "Ok" /\ writes # <<>>
       THEN [ops |-> styled.ops \o <<written[1]>>, ret |-> "Err"]
       ELSE [ops |-> styled.ops \o written \o <<reset>>,
             ret |-> IF ignored(reset_res) THEN "Ok" ELSE "Err"]

\* ---------------------------------------------------------------- format

LineSeparator_new(line, junc, ljunc, rjunc) ==
    [line |-> line, junc |-> junc, ljunc |-> ljunc, rjunc |-> rjunc]

\* A faulty variant of LineSeparator_print: a junction follows every column,
\* the last too
LineSeparator_print_junc_after_each(sep, col_width, colsep, lborder, rborder) ==
    (IF lborder THEN << <<sep.ljunc>> >> ELSE <<>>)
    \o Concat([j \in 1..Len(col_width) |->
                  [k \in 1..(col_width[j] + 2) |-> <<sep.line>>]
                  \o (IF colsep THEN << <<sep.junc>> >> ELSE <<>>)])
    \o (IF rborder THEN << <<sep.rjunc>> >> ELSE <<>>)
    \o <<NEWLINE>>

LineSeparator_print(sep, col_width, colsep, lborder, rborder) ==
    (IF lborder THEN << <<sep.ljunc>> >> ELSE <<>>)
    \o Concat([j \in 1..Len(col_width) |->
                  [k \in 1..(col_width[j] + 2) |-> <<sep.line>>]
                  \o (IF colsep /\ j < Len(col_width)
                      THEN << <<sep.junc>> >> ELSE <<>>)])
    \o (IF rborder THEN << <<sep.rjunc>> >> ELSE <<>>)
    \o <<NEWLINE>>

TableFormat_new ==
    [csep |-> None, lborder |-> None, rborder |-> None,
     lsep |-> None, tsep |-> None, top_sep |-> None, bottom_sep |-> None,
     pad_left |-> 0, pad_right |-> 0]

get_padding(f) == <<f.pad_left, f.pad_right>>

padding(f, left, right) == [f EXCEPT !.pad_left = left, !.pad_right = right]

column_separator(f, sepchar) == [f EXCEPT !.csep = Some(sepchar)]

borders(f, border) ==
    [f EXCEPT !.lborder = Some(border), !.rborder = Some(border)]

separator(f, what, sep) ==
    CASE what = "Top" -> [f EXCEPT !.top_sep = Some(sep)]
      [] what = "Bottom" -> [f EXCEPT !.bottom_sep = Some(sep)]
      [] what = "Title" -> [f EXCEPT !.tsep = Some(sep)]
      [] what = "Intern" -> [f EXCEPT !.lsep = Some(sep)]

\* A faulty variant of get_sep_for_line: Title has its own separator only
get_sep_for_line_own(f, pos) ==
    CASE pos = "Intern" -> f.lsep
      [] pos = "Top" -> f.top_sep
      [] pos = "Bottom" -> f.bottom_sep
      [] pos = "Title" -> f.tsep

get_sep_for_line(f, pos) ==
    CASE pos = "Intern" -> f.lsep
      [] pos = "Top" -> f.top_sep
      [] pos = "Bottom" -> f.bottom_sep
      [] pos = "Title" -> IF f.tsep # None THEN f.tsep ELSE f.lsep

print_line_separator(f, col_width, pos) ==
    LET l == get_sep_for_line(f, pos)
    IN IF l # None
       THEN LineSeparator_print(unwrap(l), col_width, f.csep # None,
                                f.lborder # None, f.rborder # None)
       ELSE <<>>

get_column_separator(f, pos) ==
    CASE pos = "Left" -> f.lborder
      [] pos = "Intern" -> f.csep
      [] pos = "Right" -> f.rborder

print_column_separator(f, pos) ==
    LET s == get_column_separator(f, pos)
    IN IF s # None THEN << <<unwrap(s)>> >> ELSE <<>>

\* TableFormat::get_indent is called in row.rs:123; the TableFormat of
\* format.rs has no indentation: rows start at the left border.
get_indent(f) == 0

MINUS_PLUS_SEP == LineSeparator_new("-", "+", "+", "+")
EQU_PLUS_SEP == LineSeparator_new("=", "+", "+", "+")

FORMAT_DEFAULT ==
    padding(
      separator(separator(separator(separator(
        borders(column_separator(TableFormat_new, "|"), "|"),
        "Intern", MINUS_PLUS_SEP), "Title", EQU_PLUS_SEP),
        "Bottom", MINUS_PLUS_SEP), "Top", MINUS_PLUS_SEP),
      1, 1)

FORMAT_NO_LINESEP ==
    padding(
      separator(separator(
        borders(column_separator(TableFormat_new, "|"), "|"),
        "Bottom", MINUS_PLUS_SEP), "Top", MINUS_PLUS_SEP),
      1, 1)

FORMAT_CLEAN == padding(TableFormat_new, 1, 1)

\* ------------------------------------------------------------------- row

Row_len(row) == Len(row)

RECURSIVE Row_height_from(_, _)
Row_height_from(cells, height) ==
    IF cells = <<>> THEN height
    ELSE LET h == Cell_get_height(Head(cells))
         IN Row_height_from(Tail(cells), IF h > height THEN h ELSE height)

\* A faulty variant of Row_get_height: no minimum height
Row_get_height_no_floor(row) == Row_height_from(row, 0)

Row_get_height(row) == Row_height_from(row, 1)

Row_get_cell(row, idx) == IF idx < Len(row) THEN Some(row[idx + 1]) ELSE None

Row_get_cell_width(row, column) ==
    IF Row_get_cell(row, column) # None
    THEN Cell_get_width(unwrap(Row_get_cell(row, column))) ELSE 0

Row_set_cell(row, c, column) ==
    IF column >= Row_len(row)
    THEN [row |-> row, ret |-> "Cannot find cell"]
    ELSE [row |-> [row EXCEPT ![column + 1] = c], ret |-> "Ok"]

\* Vec::remove(index), index < len: the elements after index move down
Vec_remove(v, index) ==
    [k \in 1..(Len(v) - 1) |-> IF k <= index THEN v[k] ELSE v[k + 1]]

\* Vec::insert(index, e), index <= len: the elements from index on move up
Vec_insert(v, index, e) ==
    [k \in 1..(Len(v) + 1) |->
        IF k <= index THEN v[k] ELSE IF k = index + 1 THEN e ELSE v[k - 1]]

\* Row::new(vec![]) / Row::empty
Row_empty == <<>>

Row_add_cell(r, c) == Append(r, c)

\* A faulty variant of Row_insert_cell: the cell is always appended
Row_insert_cell_append(r, index, c) == Row_add_cell(r, c)

Row_insert_cell(r, index, c) ==
    IF index < Len(r) THEN Vec_insert(r, index, c) ELSE Row_add_cell(r, c)

Row_remove_cell(r, index) ==
    IF index < Len(r) THEN Vec_remove(r, index) ELSE r

\* A faulty variant of skip_r_fill: the last column is never filled
skip_r_fill_last_always(fmt, j, col_width) == j = Len(col_width) - 1

\* row.rs:128, let skip_r_fill = ..
skip_r_fill(fmt, j, col_width) ==
    (j = Len(col_width) - 1) /\ get_column_separator(fmt, "Right") = None

\* Row::__print with f = Cell::print: the writes of the row's lines
Row_print(row, fmt, col_width) ==
    Concat([i1 \in 1..Row_get_height(row) |->
        <<Fill(" ", get_indent(fmt))>>
        \o print_column_separator(fmt, "Left")
        \o Concat([j1 \in 1..Len(col_width) |->
              LET j == j1 - 1
                  lp == get_padding(fmt)[1]
                  rp == get_padding(fmt)[2]
                  c == IF Row_get_cell(row, j) # None
                       THEN unwrap(Row_get_cell(row, j)) ELSE Cell_default
              IN <<Fill(" ", lp)>>
                 \o Cell_print(c, i1 - 1, col_width[j1],
                               skip_r_fill(fmt, j, col_width))
                 \o <<Fill(" ", rp)>>
                 \o (IF j < Len(col_width) - 1
                     THEN print_column_separator(fmt, "Intern") ELSE <<>>)])
        \o print_column_separator(fmt, "Right")
        \o <<NEWLINE>>])

\* ------------------------------------------------------------ table slice

\* A TableSlice: [format, titles, rows].  The borrowed rows are immutable
\* while the slice lives, so the slice is modelled by their values.

RECURSIVE column_num_from(_, _)
column_num_from(rs, cnum) ==
    IF rs = <<>> THEN cnum
    ELSE LET l == Row_len(Head(rs))
         IN column_num_from(Tail(rs), IF l > cnum THEN l ELSE cnum)

get_column_num(self) == column_num_from(self.rows, 0)

RECURSIVE column_width_from(_, _, _)
column_width_from(rs, col_idx, width) ==
    IF rs = <<>> THEN width
    ELSE LET l == Row_get_cell_width(Head(rs), col_idx)
         IN column_width_from(Tail(rs), col_idx, IF l > width THEN l ELSE width)

\* A faulty variant of get_column_width: the title row is not looked at
get_column_width_no_title(self, col_idx) ==
    column_width_from(self.rows, col_idx, 0)

get_column_width(self, col_idx) ==
    column_width_from(self.rows, col_idx,
        IF self.titles # None
        THEN Row_get_cell_width(unwrap(self.titles), col_idx) ELSE 0)

get_all_column_width(self) ==
    LET colnum == get_column_num(self)
    IN [i1 \in 1..colnum |-> get_column_width(self, i1 - 1)]

\* One call made by TableSlice::__print and the writes it issued
SepCall(fmt, col_width, pos) ==
    [call |-> "print_line_separator", pos |-> pos, row |-> None,
     writes |-> print_line_separator(fmt, col_width, pos)]

RowCall(fmt, col_width, pos, r) ==
    [call |-> "print_row", pos |-> pos, row |-> Some(r),
     writes |-> Row_print(r, fmt, col_width)]

\* while let Some(r) = iter.next() { f(r); if iter.peek().is_some() { Intern } }
\* A faulty variant of print_rows: an Intern separator follows every row, the last too
RECURSIVE print_rows_sep_after_each(_, _, _)
print_rows_sep_after_each(iter, fmt, col_width) ==
    IF iter = <<>> THEN <<>>
    ELSE <<RowCall(fmt, col_width, "Row", Head(iter)),
           SepCall(fmt, col_width, "Intern")>>
         \o print_rows_sep_after_each(Tail(iter), fmt, col_width)

RECURSIVE print_rows(_, _, _)
print_rows(iter, fmt, col_width) ==
    IF iter = <<>> THEN <<>>
    ELSE <<RowCall(fmt, col_width, "Row", Head(iter))>>
         \o (IF Tail(iter) # <<>>
             THEN <<SepCall(fmt, col_width, "Intern")>> ELSE <<>>)
         \o print_rows(Tail(iter), fmt, col_width)

\* TableSlice::__print with f = Row::print, to a sink that accepts every
\* write (StringWriter): the columns' widths, the calls in order, and the
\* number of flushes.
TableSlice_print(self) ==
    LET col_width == get_all_column_width(self)
    IN [col_width |-> col_width,
        calls |-> <<SepCall(self.format, col_width, "Top")>>
                  \o (IF self.titles # None
                      THEN <<RowCall(self.format, col_width, "TitleRow",
                                     unwrap(self.titles)),
                             SepCall(self.format, col_width, "Title")>>
                      ELSE <<>>)
                  \o print_rows(self.rows, self.format, col_width)
                  \o <<SepCall(self.format, col_width, "Bottom")>>,
        flushes |-> 1,
        ret |-> "Ok"]

\* The writes of a print's calls, in order
RECURSIVE WritesOf(_)
WritesOf(calls) ==
    IF calls = <<>> THEN <<>> ELSE Head(calls).writes \o WritesOf(Tail(calls))

\* A sink that has taken n writes and fails its write number fail_at (never,
\* if fail_at is 0) is given writes, each under try!: the writes issued,
\* the failing one the last, and the result
write_through(writes, n, fail_at) ==
    IF fail_at > n /\ fail_at <= n + Len(writes)
    THEN [issued |-> SubSeq(writes, 1, fail_at - n), ret |-> "Err"]
    ELSE [issued |-> writes, ret |-> "Ok"]

\* A faulty variant of try_calls: the result of a call is dropped, not tried
RECURSIVE try_calls_ignore_err(_, _, _)
try_calls_ignore_err(calls, n, fail_at) ==
    IF calls = <<>> THEN [calls |-> <<>>, ret |-> "Ok"]
    ELSE LET w == write_through(Head(calls).writes, n, fail_at)
             c == [Head(calls) EXCEPT !.writes = w.issued]
             rest == try_calls_ignore_err(Tail(calls), n + Len(w.issued), fail_at)
         IN [calls |-> <<c>> \o rest.calls, ret |-> rest.ret]

\* try!(call); ...: the calls of TableSlice::__print made in turn on the
\* sink, the first that returns an error ending the print
RECURSIVE try_calls(_, _, _)
try_calls(calls, n, fail_at) ==
    IF calls = <<>> THEN [calls |-> <<>>, ret |-> "Ok"]
    ELSE LET w == write_through(Head(calls).writes, n, fail_at)
             c == [Head(calls) EXCEPT !.writes = w.issued]
         IN IF w.ret # "Ok"
            THEN [calls |-> <<c>>, ret |-> w.ret]
            ELSE LET rest == try_calls(Tail(calls), n + Len(w.issued), fail_at)
                 IN [calls |-> <<c>> \o rest.calls, ret |-> rest.ret]

\* TableSlice::__print with f = Row::print, to a sink that fails its write
\* number fail_at: out.flush() is reached only when no call returned an
\* error
TableSlice_print_to(self, fail_at) ==
    LET p == TableSlice_print(self)
        r == try_calls(p.calls, 0, fail_at)
    IN [col_width |-> p.col_width,
        calls |-> r.calls,
        flushes |-> IF r.ret = "Ok" THEN 1 ELSE 0,
        ret |-> r.ret]

\* The bytes of a print
Bytes(p) == Concat([k \in 1..Len(p.calls) |-> Flat(p.calls[k].writes)])

\* A faulty variant of shrink_to_fit: the last element is given up too
shrink_to_fit_truncate(v) == SubSeq(v, 1, Len(v) - 1)

\* s.rows.shrink_to_fit() in AsRef<TableSlice> for Table, on a Table reached
\* through &self: the Vec afterwards.  Its capacity becomes its length; its
\* elements stay.
shrink_to_fit(v) == v

\* AsRef<TableSlice> for Table: after shrink_to_fit the Vec's (pointer,
\* capacity) is its (pointer, length), so the transmuted reference is
\* the slice of all the rows, with the table's format and titles.
as_ref(tformat, ttitles, trows) ==
    [format |-> tformat, titles |-> ttitles, rows |-> trows]

\* Slice::slice with a range lo..hi, lo <= hi <= len
\* A faulty variant of Slice_slice: the range is taken from the start of the table, not of the slice
Slice_slice_from_start(sl, lo, hi) ==
    [format |-> sl.format, titles |-> sl.titles, rows |-> SubSeq(sl.rows, 1, hi)]

Slice_slice(sl, lo, hi) ==
    [format |-> sl.format, titles |-> sl.titles,
     rows |-> SubSeq(sl.rows, lo + 1, hi)]

\* ----------------------------------------------------------------- table

\* Table::set_element: the rows afterwards and the result
\* A faulty variant of Table_set_element: a row that is missing is added
Table_set_element_grow(trows, element, column, row) ==
    IF row >= Len(trows)
    THEN [rows |-> Append(trows, <<Cell_new(element)>>), ret |-> "Ok"]
    ELSE LET r == Row_set_cell(trows[row + 1], Cell_new(element), column)
         IN [rows |-> [trows EXCEPT ![row + 1] = r.row], ret |-> r.ret]

Table_set_element(trows, element, column, row) ==
    IF ~(row < Len(trows))
    THEN [rows |-> trows, ret |-> "Cannot find row"]
    ELSE LET r == Row_set_cell(trows[row + 1], Cell_new(element), column)
         IN [rows |-> [trows EXCEPT ![row + 1] = r.row], ret |-> r.ret]

\* Table::add_row: the rows afterwards
Table_add_row(trows, r) == Append(trows, r)

Table_insert_row(trows, index, r) ==
    IF index < Len(trows) THEN Vec_insert(trows, index, r)
    ELSE Table_add_row(trows, r)

\* A faulty variant of Table_remove_row: an index past the end removes the last row
Table_remove_row_clamped(trows, index) ==
    IF index < Len(trows) THEN Vec_remove(trows, index)
    ELSE IF trows # <<>> THEN Vec_remove(trows, Len(trows) - 1) ELSE trows

Table_remove_row(trows, index) ==
    IF index < Len(trows) THEN Vec_remove(trows, index) ELSE trows

\* Table::column_iter / column_iter_mut: ColumnIter(self.rows.iter(), column)
Table_column_iter(trows, column) == [rows |-> trows, column |-> column]

\* ColumnIter::next (ColumnIterMut::next is the same code on &mut):
\* self.0.next().and_then(|row| row.get_cell(self.1))
ColumnIter_next(it) ==
    IF it.rows = <<>>
    THEN [item |-> None, it |-> it]
    ELSE [item |-> Row_get_cell(Head(it.rows), it.column),
          it |-> [it EXCEPT !.rows = Tail(it.rows)]]

\* The iterator consumed by a for loop or collect(): next is called until
\* it returns None
RECURSIVE ColumnIter_collect(_)
ColumnIter_collect(it) ==
    LET n == ColumnIter_next(it)
    IN IF n.item = None THEN <<>>
       ELSE <<unwrap(n.item)>> \o ColumnIter_collect(n.it)

\* ---------------------------------------------------------------- inputs

\* The strings cells are built from: one line of width 1; two lines of
\* widths 3 (a wide glyph and a narrow one) and 1; one line of width 2
StrA == <<"a">>
StrB == <<WIDE, "b", "\n", "c">>
TitleStr == <<"t", "t">>

\* The rows given to add_row: of 0, 1 and 2 cells
RowInputs == { <<>>, <<Cell_new(StrA)>>, <<Cell_new(StrB), Cell_new(StrA)>> }

\* The rows given to set_titles: of 0 to MaxCols cells
TitleInputs == UNION { [1..n -> {Cell_new(TitleStr)}] : n \in 0..MaxCols }

\* The strings given to set_element
ElementInputs == {StrA}

Formats == {FORMAT_DEFAULT, FORMAT_NO_LINESEP, FORMAT_CLEAN}

\* --------------------------------------------------- the table's operations

\* `last` is what the caller holds of its most recent call: the result of
\* set_element, or the StringWriter a print wrote to with the calls the
\* print made.  NoCall: the caller holds nothing.
NoCall ==
    [op |-> "none", ret |-> "Ok", args |-> <<>>, slice |-> None,
     col_width |-> <<>>, calls |-> <<>>, flushes |-> 0, cells |-> <<>>]

PrintCall(op, args, self) ==
    LET p == TableSlice_print(self)
    IN [NoCall EXCEPT !.op = op, !.ret = p.ret, !.args = args,
                      !.slice = Some(self), !.col_width = p.col_width,
                      !.calls = p.calls, !.flushes = p.flushes]

\* Table::new
TableInit ==
    /\ format = FORMAT_DEFAULT
    /\ titles = None
    /\ rows = <<>>
    /\ last = NoCall

\* Table::add_row
AddRow(row) ==
    /\ last = NoCall
    /\ Len(rows) < MaxRows
    /\ rows' = Table_add_row(rows, row)
    /\ UNCHANGED <<format, titles, last>>
    /\ UNCHANGED <<cellVars, rowVars, treeVars, tabVars>>

\* Table::set_titles
SetTitles(t) ==
    /\ last = NoCall
    /\ titles' = Some(t)
    /\ UNCHANGED <<format, rows, last>>
    /\ UNCHANGED <<cellVars, rowVars, treeVars, tabVars>>

\* Table::unset_titles
UnsetTitles ==
    /\ last = NoCall
    /\ titles' = None
    /\ UNCHANGED <<format, rows, last>>
    /\ UNCHANGED <<cellVars, rowVars, treeVars, tabVars>>

\* Table::set_format
SetFormat(f) ==
    /\ last = NoCall
    /\ format' = f
    /\ UNCHANGED <<titles, rows, last>>
    /\ UNCHANGED <<cellVars, rowVars, treeVars, tabVars>>

\* Table::set_element
SetElement(element, column, row) ==
    LET r == Table_set_element(rows, element, column, row)
    IN /\ last = NoCall
       /\ rows' = r.rows
       /\ last' = [NoCall EXCEPT !.op = "set_element", !.ret = r.ret]
       /\ UNCHANGED <<format, titles>>
       /\ UNCHANGED <<cellVars, rowVars, treeVars, tabVars>>

\* Table::print to a fresh StringWriter, as Display::fmt does
TablePrint ==
    /\ last = NoCall
    /\ rows' = shrink_to_fit(rows)
    /\ last' = PrintCall("print", <<>>, as_ref(format, titles, rows'))
    /\ UNCHANGED <<format, titles>>
    /\ UNCHANGED <<cellVars, rowVars, treeVars, tabVars>>

\* table.slice(a..b).slice(c..d).print, the ranges valid
PrintSliceOfSlice(a, b, c, d) ==
    /\ last = NoCall
    /\ a <= b /\ b <= Len(rows)
    /\ c <= d /\ d <= b - a
    /\ rows' = shrink_to_fit(rows)
    /\ last' = PrintCall("slice_slice_print", <<a, b, c, d>>,
                   Slice_slice(Slice_slice(as_ref(format, titles, rows'), a, b),
                               c, d))
    /\ UNCHANGED <<format, titles>>
    /\ UNCHANGED <<cellVars, rowVars, treeVars, tabVars>>

\* Table::print once more, to another StringWriter, nothing called on the
\* table since the first print; the caller keeps the first print's bytes
PrintAgain ==
    /\ last.op = "print"
    /\ rows' = shrink_to_fit(rows)
    /\ last' = PrintCall("print_again", <<Bytes(last)>>,
                         as_ref(format, titles, rows'))
    /\ UNCHANGED <<format, titles>>
    /\ UNCHANGED <<cellVars, rowVars, treeVars, tabVars>>

\* for c in table.column_iter(column) / table.column_iter_mut(column)
ColumnIter(column) ==
    /\ last = NoCall
    /\ last' = [NoCall EXCEPT !.op = "column_iter", !.args = <<column>>,
                   !.cells = ColumnIter_collect(Table_column_iter(rows, column))]
    /\ UNCHANGED <<format, titles, rows>>
    /\ UNCHANGED <<cellVars, rowVars, treeVars, tabVars>>

\* Table::print to a sink that fails its write number fail_at
PrintTo(fail_at) ==
    LET self == as_ref(format, titles, shrink_to_fit(rows))
        p == TableSlice_print_to(self, fail_at)
    IN /\ last = NoCall
       /\ rows' = shrink_to_fit(rows)
       /\ last' = [NoCall EXCEPT !.op = "print_to", !.args = <<fail_at>>,
                      !.ret = p.ret, !.slice = Some(self),
                      !.col_width = p.col_width, !.calls = p.calls,
                      !.flushes = p.flushes]
       /\ UNCHANGED <<format, titles>>
       /\ UNCHANGED <<cellVars, rowVars, treeVars, tabVars>>

\* The caller drops the result (Display::fmt's StringWriter is a local)
DropResult ==
    /\ last # NoCall
    /\ last' = NoCall
    /\ UNCHANGED <<format, titles, rows>>
    /\ UNCHANGED <<cellVars, rowVars, treeVars, tabVars>>

TableNext ==
    \/ \E row \in RowInputs : AddRow(row)
    \/ \E t \in TitleInputs : SetTitles(t)
    \/ UnsetTitles
    \/ \E f \in Formats : SetFormat(f)
    \/ \E e \in ElementInputs, c \in 0..MaxCols, r \in 0..MaxRows :
          SetElement(e, c, r)
    \/ TablePrint
    \/ PrintAgain
    \/ \E a \in 0..MaxRows, b \in 0..MaxRows, c \in 0..MaxRows, d \in 0..MaxRows :
          PrintSliceOfSlice(a, b, c, d)
    \/ DropResult

\* Table::insert_row
InsertRow(index, r) ==
    /\ last = NoCall
    /\ rowOut.op = "none"
    /\ Len(rows) < MaxRows
    /\ rows' = Table_insert_row(rows, index, r)
    /\ last' = [NoCall EXCEPT !.op = "insert_row", !.args = <<index, r>>]
    /\ UNCHANGED <<format, titles>>
    /\ UNCHANGED <<cellVars, rowVars, treeVars, tabVars>>

\* Table::remove_row
RemoveRow(index) ==
    /\ last = NoCall
    /\ rowOut.op = "none"
    /\ rows' = Table_remove_row(rows, index)
    /\ last' = [NoCall EXCEPT !.op = "remove_row", !.args = <<index>>]
    /\ UNCHANGED <<format, titles>>
    /\ UNCHANGED <<cellVars, rowVars, treeVars, tabVars>>

\* A table built and printed to sinks that fail
SinkNext ==
    \/ \E r \in RowInputs : AddRow(r)
    \/ \E t \in TitleInputs : SetTitles(t)
    \/ \E f \in Formats : SetFormat(f)
    \/ \E fail_at \in
          0..(Len(WritesOf(TableSlice_print(as_ref(format, titles, rows)).calls))
              + 1) : PrintTo(fail_at)
    \/ DropResult

\* ------------------------------------------ the table printed with padding

\* The formats given to set_format: the default one and the one without
\* separators or borders, with every padding
PaddedFormats ==
    { padding(f, left, right) :
        f \in {FORMAT_DEFAULT, FORMAT_CLEAN},
        left \in 0..MaxPad, right \in 0..MaxPad }

WidthNext ==
    \/ \E r \in RowInputs : AddRow(r)
    \/ \E t \in TitleInputs : SetTitles(t)
    \/ \E f \in PaddedFormats : SetFormat(f)
    \/ TablePrint
    \/ DropResult

\* -------------------------------------------- the table printed by slices

\* table.slice(a..b).print, the range valid
PrintSlice(a, b) ==
    /\ last = NoCall
    /\ a <= b /\ b <= Len(rows)
    /\ rows' = shrink_to_fit(rows)
    /\ last' = PrintCall("slice_print", <<a, b>>,
                   Slice_slice(as_ref(format, titles, rows'), a, b))
    /\ UNCHANGED <<format, titles>>
    /\ UNCHANGED <<cellVars, rowVars, treeVars, tabVars>>

SliceNext ==
    \/ \E r \in RowInputs : AddRow(r)
    \/ \E t \in TitleInputs : SetTitles(t)
    \/ \E f \in Formats : SetFormat(f)
    \/ \E a \in 0..MaxRows, b \in 0..MaxRows : PrintSlice(a, b)
    \/ DropResult

\* ----------------------------------------------------- the row's operations

\* The cells given to insert_cell
CellInputs == {Cell_new(StrA), Cell_new(StrB), Cell_new(TitleStr)}

NoRowCall == [op |-> "none", args |-> <<>>, writes |-> <<>>]

\* Row::new(vec![])
RowInit ==
    /\ rowObj = Row_empty
    /\ rowOut = NoRowCall

\* Row::insert_cell
RowInsertCell(index, c) ==
    /\ last = NoCall
    /\ rowOut = NoRowCall
    /\ Len(rowObj) < MaxCols
    /\ rowObj' = Row_insert_cell(rowObj, index, c)
    /\ rowOut' = [NoRowCall EXCEPT !.op = "insert_cell", !.args = <<index, c>>]
    /\ UNCHANGED <<tableVars, cellVars, treeVars, tabVars>>

\* Row::remove_cell
RowRemoveCell(index) ==
    /\ last = NoCall
    /\ rowOut = NoRowCall
    /\ rowObj' = Row_remove_cell(rowObj, index)
    /\ rowOut' = [NoRowCall EXCEPT !.op = "remove_cell", !.args = <<index>>]
    /\ UNCHANGED <<tableVars, cellVars, treeVars, tabVars>>

\* The caller goes on to its next call on the row
RowDropResult ==
    /\ rowOut # NoRowCall
    /\ rowOut' = NoRowCall
    /\ UNCHANGED rowObj
    /\ UNCHANGED <<tableVars, cellVars, treeVars, tabVars>>

EditNext ==
    \/ \E index \in 0..(MaxRows + 1), r \in RowInputs : InsertRow(index, r)
    \/ \E index \in 0..(MaxRows + 1) : RemoveRow(index)
    \/ \E column \in 0..MaxCols : ColumnIter(column)
    \/ DropResult
    \/ \E index \in 0..(MaxCols + 1), c \in CellInputs : RowInsertCell(index, c)
    \/ \E index \in 0..(MaxCols + 1) : RowRemoveCell(index)
    \/ RowDropResult

\* --------------------------------------------------------- the row printed

\* The cells of the rows printed: of one line, of two lines, of no line
\* (Cell::new("")), and aligned to the right and to the center
PrintCells ==
    {Cell_new(StrA), Cell_new(StrB), Cell_new(<<>>),
     Cell_new_align(StrA, "RIGHT"), Cell_new_align(StrA, "CENTER")}

\* The formats given to Row::print: with borders and column separator, with
\* a column separator only, with neither; with every padding
RowFormats ==
    { padding(f, left, right) :
        f \in {FORMAT_DEFAULT, FORMAT_CLEAN,
               column_separator(TableFormat_new, "|")},
        left \in 0..MaxPad, right \in 0..MaxPad }

\* The col_width given to Row::print: of 0 to MaxCols columns
RowColWidths == UNION { [1..n -> {1, 4}] : n \in 0..MaxCols }

\* Row::print to a StringWriter
RowPrint(fmt, col_width) ==
    /\ last = NoCall
    /\ rowOut = NoRowCall
    /\ rowOut' = [NoRowCall EXCEPT !.op = "print", !.args = <<fmt, col_width>>,
                                   !.writes = Row_print(rowObj, fmt, col_width)]
    /\ UNCHANGED rowObj
    /\ UNCHANGED <<tableVars, cellVars, treeVars, tabVars>>

RowNext ==
    \/ \E index \in 0..(MaxCols + 1), c \in PrintCells : RowInsertCell(index, c)
    \/ \E index \in 0..(MaxCols + 1) : RowRemoveCell(index)
    \/ \E fmt \in RowFormats, col_width \in RowColWidths :
          RowPrint(fmt, col_width)
    \/ RowDropResult

\* ---------------------------------------------------- the cell's operations

Chars == {"a", WIDE, "\n"}

Strings == UNION { [1..n -> Chars] : n \in 0..MaxLen }

NoPrint == [op |-> "none", idx |-> 0, col_width |-> 0,
            skip_right_fill |-> FALSE, writes |-> <<>>,
            attr_res |-> <<>>, write_res |-> "Ok", reset_res |-> "Ok",
            ops |-> <<>>, ret |-> "Ok", spec |-> <<>>,
            room |-> 0, delivered |-> <<>>]

\* Cell::default
CellInit ==
    /\ cell = [string |-> <<>>, built |-> FALSE, c |-> Cell_default]
    /\ cellOut = NoPrint

\* Cell::new_align
CellNewAlign(string, align) ==
    /\ cell' = [string |-> string, built |-> TRUE,
                c |-> Cell_new_align(string, align)]
    /\ cellOut' = NoPrint
    /\ UNCHANGED <<tableVars, rowVars, treeVars, tabVars>>

\* Cell::print to a StringWriter
CellPrint(idx, col_width, skip_right_fill) ==
    /\ cellOut' = [NoPrint EXCEPT
                      !.op = "print", !.idx = idx, !.col_width = col_width,
                      !.skip_right_fill = skip_right_fill,
                      !.writes = Cell_print(cell.c, idx, col_width,
                                            skip_right_fill)]
    /\ UNCHANGED cell
    /\ UNCHANGED <<tableVars, rowVars, treeVars, tabVars>>

\* Cell::print to a sink with room for `room` bytes
CellPrintInto(idx, col_width, skip_right_fill, room) ==
    LET writes == Cell_print(cell.c, idx, col_width, skip_right_fill)
        out == print_align_into(writes, room)
    IN /\ cellOut = NoPrint
       /\ cellOut' = [NoPrint EXCEPT
                         !.op = "print_into", !.idx = idx,
                         !.col_width = col_width,
                         !.skip_right_fill = skip_right_fill,
                         !.writes = writes, !.room = room,
                         !.delivered = out.delivered, !.ret = out.ret]
       /\ UNCHANGED cell
       /\ UNCHANGED <<tableVars, rowVars, treeVars, tabVars>>

\* The result of the print is let go
CellDropResult ==
    /\ cellOut # NoPrint
    /\ cellOut' = NoPrint
    /\ UNCHANGED cell
    /\ UNCHANGED <<tableVars, rowVars, treeVars, tabVars>>

\* A cell printed to sinks of every room
PartialNext ==
    \/ \E str \in Strings, al \in Alignments :
          cellOut = NoPrint /\ CellNewAlign(str, al)
    \/ CellDropResult
    \/ \E idx \in 0..MaxLen, w \in 0..(Cell_get_width(cell.c) + MaxFill),
          skip \in BOOLEAN, room \in 0..(MaxLen + MaxFill) :
              CellPrintInto(idx, w, skip, room)

CellNext ==
    \/ \E s \in Strings, al \in Alignments : CellNewAlign(s, al)
    \/ \E idx \in 0..MaxLen, w \in 0..(Cell_get_width(cell.c) + MaxFill),
          skip \in BOOLEAN : CellPrint(idx, w, skip)

\* ------------------------------------------------- the format builder

LinePositions == {"Top", "Title", "Intern", "Bottom"}

\* The separators given to FormatBuilder::separator, as those of
\* tests::test_unicode_separators: the four characters of one differ, and
\* differ from those of the other
Seps == {LineSeparator_new("-", "+", "<", ">"),
         LineSeparator_new("=", "*", "[", "]")}

\* The column widths given to print_line_separator
ColWidths == {<<>>, <<2>>, <<1, 0>>, <<0, 1, 2>>}

\* FormatBuilder::new
FormatInit ==
    /\ format = TableFormat_new
    /\ titles = None
    /\ rows = <<>>
    /\ last = NoCall

\* FormatBuilder::padding
FormatPadding(left, right) ==
    /\ last = NoCall
    /\ format' = padding(format, left, right)
    /\ UNCHANGED <<titles, rows, last>>
    /\ UNCHANGED <<cellVars, rowVars, treeVars, tabVars>>

\* FormatBuilder::column_separator
FormatColumnSeparator(sepchar) ==
    /\ last = NoCall
    /\ format' = column_separator(format, sepchar)
    /\ UNCHANGED <<titles, rows, last>>
    /\ UNCHANGED <<cellVars, rowVars, treeVars, tabVars>>

\* FormatBuilder::borders
FormatBorders(border) ==
    /\ last = NoCall
    /\ format' = borders(format, border)
    /\ UNCHANGED <<titles, rows, last>>
    /\ UNCHANGED <<cellVars, rowVars, treeVars, tabVars>>

\* FormatBuilder::separator
FormatSeparator(what, sep) ==
    /\ last = NoCall
    /\ format' = separator(format, what, sep)
    /\ UNCHANGED <<titles, rows, last>>
    /\ UNCHANGED <<cellVars, rowVars, treeVars, tabVars>>

\* TableFormat::print_line_separator to a StringWriter
PrintLineSeparator(col_width, pos) ==
    /\ last = NoCall
    /\ last' = [NoCall EXCEPT !.op = "print_line_separator",
                              !.args = <<col_width, pos>>,
                              !.col_width = col_width,
                              !.calls = <<SepCall(format, col_width, pos)>>]
    /\ UNCHANGED <<format, titles, rows>>
    /\ UNCHANGED <<cellVars, rowVars, treeVars, tabVars>>

\* LineSeparator::print to a StringWriter
PrintSeparator(sep, col_width, colsep, lborder, rborder) ==
    /\ last = NoCall
    /\ last' = [NoCall EXCEPT
                   !.op = "LineSeparator_print",
                   !.args = <<col_width, sep, colsep, lborder, rborder>>,
                   !.col_width = col_width,
                   !.calls = <<[call |-> "LineSeparator_print", pos |-> None,
                                row |-> None,
                                writes |-> LineSeparator_print(
                                    sep, col_width, colsep, lborder,
                                    rborder)]>>]
    /\ UNCHANGED <<format, titles, rows>>
    /\ UNCHANGED <<cellVars, rowVars, treeVars, tabVars>>

FormatNext ==
    \/ \E left \in 0..MaxPad, right \in 0..MaxPad : FormatPadding(left, right)
    \/ FormatColumnSeparator("|")
    \/ FormatBorders("|")
    \/ \E what \in LinePositions, sep \in Seps : FormatSeparator(what, sep)
    \/ \E col_width \in ColWidths, pos \in LinePositions :
          PrintLineSeparator(col_width, pos)
    \/ \E sep \in Seps, col_width \in ColWidths,
          colsep \in BOOLEAN, lborder \in BOOLEAN, rborder \in BOOLEAN :
          PrintSeparator(sep, col_width, colsep, lborder, rborder)
    \/ DropResult

\* ------------------------------------------- the cell on a styled sink

\* term::Attr values: Attr::Bold and Attr::ForegroundColor(color::RED)
Attrs == {"Bold", "ForegroundColor(RED)"}

\* What a terminal answers to attr and reset: Ok, two errors Cell::print_term
\* names, and another error (term::Error::Io)
TermResults == {"Ok", "NotSupported", "ColorOutOfRange", "Io"}

\* The strings the styled cells are built from
TermStrings == {StrA, StrB}

\* Cell::style
CellStyle(attr) ==
    /\ Len(cell.c.style) < MaxStyle
    /\ cell' = [cell EXCEPT !.c = Cell_style(@, attr)]
    /\ cellOut' = NoPrint
    /\ UNCHANGED <<tableVars, rowVars, treeVars, tabVars>>

\* Cell::reset_style
CellResetStyle ==
    /\ cell' = [cell EXCEPT !.c = Cell_reset_style(@)]
    /\ cellOut' = NoPrint
    /\ UNCHANGED <<tableVars, rowVars, treeVars, tabVars>>

\* Cell::print_term
CellPrintTerm(idx, col_width, skip_right_fill, attr_res, write_res, reset_res) ==
    LET p == Cell_print_term(cell.c, idx, col_width, skip_right_fill,
                             attr_res, write_res, reset_res)
    IN /\ cellOut = NoPrint
       /\ cellOut' = [NoPrint EXCEPT
                         !.op = "print_term", !.idx = idx,
                         !.col_width = col_width,
                         !.skip_right_fill = skip_right_fill,
                         !.writes = Cell_print(cell.c, idx, col_width,
                                               skip_right_fill),
                         !.attr_res = attr_res, !.write_res = write_res,
                         !.reset_res = reset_res,
                         !.ops = p.ops, !.ret = p.ret]
       /\ UNCHANGED cell
       /\ UNCHANGED <<tableVars, rowVars, treeVars, tabVars>>

\* The characters of the specifiers given to style_spec: tags that are
\* colour letters as well, and a character that is no tag
SpecChars == {"F", "B", "b", "r", "z"}

SpecStrings == UNION { [1..n -> SpecChars] : n \in 0..MaxSpec }

\* Cell::style_spec
CellStyleSpec(spec) ==
    /\ cellOut = NoPrint
    /\ cell' = [cell EXCEPT !.c = Cell_style_spec(@, spec)]
    /\ cellOut' = [NoPrint EXCEPT !.op = "style_spec", !.spec = spec]
    /\ UNCHANGED <<tableVars, rowVars, treeVars, tabVars>>

StyleNext ==
    \/ \E al \in Alignments : CellNewAlign(StrB, al)
    \/ \E attr \in Attrs : CellStyle(attr)
    \/ \E spec \in SpecStrings : CellStyleSpec(spec)

TermNext ==
    \/ \E string \in TermStrings, al \in Alignments : CellNewAlign(string, al)
    \/ \E attr \in Attrs : CellStyle(attr)
    \/ CellResetStyle
    \/ \E idx \in 0..1, skip \in BOOLEAN,
          attr_res \in [1..Len(cell.c.style) -> TermResults],
          write_res \in {"Ok", "Io"}, reset_res \in TermResults :
          CellPrintTerm(idx, Cell_get_width(cell.c) + 1, skip, attr_res,
                        write_res, reset_res)

\* ------------------------------------------------------------------ tree

EMPTY == <<" ", " ", " ">>
EDGE == <<" ", "U+2514", "U+2500">>
PIPE == <<" ", "U+2502", " ">>
BRANCH == <<" ", "U+251C", "U+2500">>

\* A faulty variant of level_to_string: EMPTY and PIPE exchanged
level_to_string_pipe_for_last(level) ==
    Concat([col1 \in 1..Len(level) |->
        LET is_last_child == level[col1]
            is_last_col == (col1 - 1 = Len(level) - 1)
        IN CASE is_last_child /\ ~is_last_col -> PIPE
             [] is_last_child /\ is_last_col -> EDGE
             [] ~is_last_child /\ ~is_last_col -> EMPTY
             [] ~is_last_child /\ is_last_col -> BRANCH])

level_to_string(level) ==
    Concat([col1 \in 1..Len(level) |->
        LET is_last_child == level[col1]
            is_last_col == (col1 - 1 = Len(level) - 1)
        IN CASE is_last_child /\ ~is_last_col -> EMPTY
             [] is_last_child /\ is_last_col -> EDGE
             [] ~is_last_child /\ ~is_last_col -> PIPE
             [] ~is_last_child /\ is_last_col -> BRANCH])

\* for s in treenode.children.iter(): the nodes after the loop
RECURSIVE write_children(_, _, _, _)
write_children(ns, level, ss, d) ==
    IF ss = <<>> THEN ns
    ELSE IF Head(ss) < Len(ns)
         THEN write_children(
                  [ns EXCEPT ![Head(ss) + 1].level = Append(level, d = 1)],
                  level, Tail(ss), d - 1)
         ELSE write_children(ns, level, Tail(ss), d)

\* A faulty variant of write_tree_level_of_children: every child is marked as the last
write_tree_level_all_last(ns, i) ==
    IF i < Len(ns)
    THEN write_children(ns, ns[i + 1].level, ns[i + 1].children, 1)
    ELSE ns

write_tree_level_of_children(ns, i) ==
    IF i < Len(ns)
    THEN write_children(ns, ns[i + 1].level, ns[i + 1].children,
                        Len(ns[i + 1].children))
    ELSE ns

\* The number of "/"-separated segments of a path: split("/").count()
RECURSIVE split_count(_)
split_count(path) ==
    IF path = <<>> THEN 1
    ELSE (IF Head(path) = "/" THEN 1 ELSE 0) + split_count(Tail(path))

starts_with(str, prefix) ==
    Len(prefix) <= Len(str) /\ SubSeq(str, 1, Len(prefix)) = prefix

\* The predicate of the module's example, of examples/treetable.rs and of
\* tests::test_
path_is_parent_of(parent, item) ==
    split_count(parent) + 1 = split_count(item) /\ starts_with(item, parent)

\* is_parent_of(maybe_parent, item): the example's predicate on paths, or an
\* arbitrary relation on opaque items
is_parent_of(parent, item) ==
    IF pred.kind = "path" THEN path_is_parent_of(parent, item)
    ELSE <<parent, item>> \in pred.rel

\* nodes.get_mut(current.unwrap()).and_then(|n| n.parent)
\* A faulty variant of climb: current is left where it is
climb_stay(ns, cur) == cur

\* A faulty variant of climb: the candidate's parent is not tried, the item
\* becomes a root
climb_to_root(ns, cur) == None

climb(ns, cur) ==
    IF unwrap(cur) < Len(ns) THEN ns[unwrap(cur) + 1].parent ELSE None

\* A faulty variant of push_child: the child list is left as it is
push_child_none(ns, cur, i) == ns

\* if let Some(parent) = current { if let Some(node) = nodes.get_mut(parent)
\* { node.children.push(i); } }
push_child(ns, cur, i) ==
    IF cur # None /\ unwrap(cur) < Len(ns)
    THEN [ns EXCEPT ![unwrap(cur) + 1].children = Append(@, i)]
    ELSE ns

\* The module's example
ExampleItems ==
    << <<"1">>, <<"1", "/", "2">>, <<"1", "/", "2", "/", "3">>,
       <<"1", "/", "4">>, <<"5">>, <<"5", "/", "6">> >>

\* Opaque items are the numbers 1..n; the loop of
\* make_tree_by_reverse_depth_first asks is_parent_of only of an earlier
\* item and a later one, so the relations range over those pairs.
Relations(n) == SUBSET { <<p, c>> \in (1..n) \X (1..n) : p < c }

TreeStart(its, pr) ==
    /\ items = its
    /\ pred = pr
    /\ pc = "make_tree"
    /\ next_i = 0
    /\ current = None
    /\ nodes = <<>>
    /\ prefixes = <<>>

\* provide_prefix is called
TreeInit ==
    \/ \E n \in 0..MaxItems : \E rel \in Relations(n) :
          TreeStart([k \in 1..n |-> k], [kind |-> "rel", rel |-> rel])
    \/ TreeStart(ExampleItems, [kind |-> "path", rel |-> {}])

\* No call of provide_prefix
TreeIdle == TreeStart(<<>>, [kind |-> "rel", rel |-> {}])

\* One iteration of the while loop of make_tree_by_reverse_depth_first
Climb ==
    /\ pc = "make_tree"
    /\ next_i < Len(items)
    /\ current # None
    /\ ~is_parent_of(items[unwrap(current) + 1], items[next_i + 1])
    /\ current' = climb(nodes, current)
    /\ UNCHANGED <<items, pred, pc, next_i, nodes, prefixes>>
    /\ UNCHANGED <<tableVars, cellVars, rowVars, tabVars>>

\* The rest of the for loop's body, the while loop left
PushNode ==
    /\ pc = "make_tree"
    /\ next_i < Len(items)
    /\ ~(/\ current # None
          /\ ~is_parent_of(items[unwrap(current) + 1], items[next_i + 1]))
    /\ LET treenode == [parent |-> current, level |-> <<>>, children |-> <<>>]
       IN nodes' = Append(push_child(nodes, current, next_i), treenode)
    /\ current' = Some(next_i)
    /\ next_i' = next_i + 1
    /\ UNCHANGED <<items, pred, pc, prefixes>>
    /\ UNCHANGED <<tableVars, cellVars, rowVars, tabVars>>

\* make_tree_by_reverse_depth_first returns nodes
ReturnNodes ==
    /\ pc = "make_tree"
    /\ next_i = Len(items)
    /\ pc' = "write_level"
    /\ next_i' = 0
    /\ UNCHANGED <<items, pred, current, nodes, prefixes>>
    /\ UNCHANGED <<tableVars, cellVars, rowVars, tabVars>>

\* One iteration of the for loop of provide_prefix
WriteLevel ==
    /\ pc = "write_level"
    /\ next_i < Len(nodes)
    /\ nodes' = write_tree_level_of_children(nodes, next_i)
    /\ next_i' = next_i + 1
    /\ UNCHANGED <<items, pred, pc, current, prefixes>>
    /\ UNCHANGED <<tableVars, cellVars, rowVars, tabVars>>

\* nodes.iter().map(|n| level_to_string(&n.level)).collect()
ReturnPrefixes ==
    /\ pc = "write_level"
    /\ next_i = Len(nodes)
    /\ prefixes' = [k \in 1..Len(nodes) |-> level_to_string(nodes[k].level)]
    /\ pc' = "done"
    /\ UNCHANGED <<items, pred, next_i, current, nodes>>
    /\ UNCHANGED <<tableVars, cellVars, rowVars, tabVars>>

TreeNext ==
    \/ Climb
    \/ PushNode
    \/ ReturnNodes
    \/ WriteLevel
    \/ ReturnPrefixes

\* --------------------------------------------- the historical tabprint

\* tabprint::Table::new
tabprint_Table_new(ts) == [num_cols |-> Len(ts), titles |-> ts, rows |-> <<>>]

\* tabprint::Table::get_mut_row: self.rows[row] panics out of range
tabprint_get_mut_row_panics(t, row) == row >= Len(t.rows)

\* tabprint::Table::add_row; on Ok the row added is the last one
tabprint_Table_add_row(t, row) ==
    IF Len(row) # t.num_cols
    THEN [t |-> t, ret |-> "Err(Row does not have the proper number of column)"]
    ELSE [t |-> [t EXCEPT !.rows = Append(@, row)], ret |-> "Ok"]

\* tabprint::Table::add_empty_row
tabprint_Table_add_empty_row(t) ==
    tabprint_Table_add_row(t, [k \in 1..t.num_cols |-> <<>>])

\* tabprint::Table::set_element
tabprint_Table_set_element(t, element, column, row) ==
    IF column >= t.num_cols
    THEN [t |-> t, ret |-> "Err(Column index is higher than expected)"]
    ELSE IF row > Len(t.rows)
    THEN LET added == tabprint_Table_add_empty_row(t)
         IN IF added.ret # "Ok" THEN added
            ELSE [t |-> [added.t EXCEPT
                            !.rows[Len(added.t.rows)][column + 1] = element],
                  ret |-> "Ok"]
    ELSE IF tabprint_get_mut_row_panics(t, row)
    THEN [t |-> t, ret |-> "panic"]
    ELSE [t |-> [t EXCEPT !.rows[row + 1][column + 1] = element],
          ret |-> "Ok"]

NoTabCall ==
    [op |-> "none", args |-> <<>>, ret |-> "Ok", rows_before |-> 0]

\* The titles given to tabprint::Table::new: of 0 to MaxCols columns
TabTitles == UNION { [1..n -> {<<"t">>}] : n \in 0..MaxCols }

\* No tabprint table in use
TabIdle ==
    /\ tab = tabprint_Table_new(<<>>)
    /\ tabOut = NoTabCall

\* let mut table = tabprint::Table::new(titles)
TabInit ==
    /\ tab \in { tabprint_Table_new(ts) : ts \in TabTitles }
    /\ tabOut = NoTabCall

\* tabprint::Table::add_row
TabAddRow(row) ==
    /\ tabOut = NoTabCall
    /\ Len(tab.rows) < MaxRows
    /\ LET r == tabprint_Table_add_row(tab, row)
       IN /\ tab' = r.t
          /\ tabOut' = [NoTabCall EXCEPT !.op = "add_row", !.args = <<row>>,
                                         !.ret = r.ret,
                                         !.rows_before = Len(tab.rows)]
    /\ UNCHANGED <<tableVars, cellVars, rowVars, treeVars>>

\* tabprint::Table::set_element
TabSetElement(element, column, row) ==
    /\ tabOut = NoTabCall
    /\ row > Len(tab.rows) => Len(tab.rows) < MaxRows
    /\ LET r == tabprint_Table_set_element(tab, element, column, row)
       IN /\ tab' = r.t
          /\ tabOut' = [NoTabCall EXCEPT !.op = "set_element",
                                         !.args = <<element, column, row>>,
                                         !.ret = r.ret,
                                         !.rows_before = Len(tab.rows)]
    /\ UNCHANGED <<tableVars, cellVars, rowVars, treeVars>>

\* The caller goes on to its next call on the table; after a panic there is
\* no next call
TabDropResult ==
    /\ tabOut # NoTabCall
    /\ tabOut.ret # "panic"
    /\ tabOut' = NoTabCall
    /\ UNCHANGED tab
    /\ UNCHANGED <<tableVars, cellVars, rowVars, treeVars>>

TabNext ==
    \/ \E n \in 0..MaxCols : TabAddRow([k \in 1..n |-> <<"x">>])
    \/ \E column \in 0..MaxCols, row \in 0..(MaxRows + 1) :
          TabSetElement(<<"y">>, column, row)
    \/ TabDropResult

\* ---------------------------------------------------------- specifications

\* The table and its operations
Init == TableInit /\ CellInit /\ RowInit /\ TreeIdle /\ TabIdle

Next == TableNext

Spec == Init /\ [][Next]_vars

\* A cell and its operations
SpecCell == Init /\ [][CellNext]_vars

\* A format built step by step and its separator lines
FormatSpecInit == FormatInit /\ CellInit /\ RowInit /\ TreeIdle /\ TabIdle

SpecFormat == FormatSpecInit /\ [][FormatNext]_vars

\* A table printed with formats of every padding
SpecWidth == Init /\ [][WidthNext]_vars

\* A cell printed to sinks that take part of the bytes offered
SpecPartial == Init /\ [][PartialNext]_vars

\* A table printed by slices
SpecSlice == Init /\ [][SliceNext]_vars

\* The historical tabprint table
TabSpecInit == TableInit /\ CellInit /\ RowInit /\ TreeIdle /\ TabInit

SpecTab == TabSpecInit /\ [][TabNext]_vars

\* A cell styled by specifiers
SpecStyle == Init /\ [][StyleNext]_vars

\* A cell with style attributes printed to styled sinks
SpecTerm == Init /\ [][TermNext]_vars

\* A table printed to sinks that fail
SpecSink == Init /\ [][SinkNext]_vars

\* A row built cell by cell and printed
SpecRow == Init /\ [][RowNext]_vars

\* A table and a row edited by inserting and removing, the table iterated
\* by column
SpecEdit == Init /\ [][EditNext]_vars

\* A call of provide_prefix: it runs alone, and a step it can take is taken
TreeSpecInit == TableInit /\ CellInit /\ RowInit /\ TreeInit /\ TabIdle

SpecTree == TreeSpecInit /\ [][TreeNext]_vars /\ WF_vars(TreeNext)

\* ------------------------------------------------------------------ claims

IsPrint == last.op \in {"print", "slice_slice_print"}

IsSep(c, self, col_width, pos) ==
    /\ c.call = "print_line_separator"
    /\ c.pos = pos
    /\ c.writes = print_line_separator(self.format, col_width, pos)

IsRow(c, self, col_width, pos, r) ==
    /\ c.call = "print_row"
    /\ c.pos = pos
    /\ c.row = Some(r)
    /\ c.writes = Row_print(r, self.format, col_width)

\* C1: a print makes, in this order, the Top separator call, then (with a
\* title) the title row and the Title separator, then every body row in row
\* order with an Intern separator after each but the last, then the Bottom
\* separator, and then only the flush.
C1_PrintOrder ==
    IsPrint =>
        LET self == unwrap(last.slice)
            cw == last.col_width
            calls == last.calls
            n == Len(self.rows)
            t == IF self.titles # None THEN 2 ELSE 0
        IN /\ Len(calls) = 1 + t + (IF n = 0 THEN 0 ELSE 2 * n - 1) + 1
           /\ IsSep(calls[1], self, cw, "Top")
           /\ t = 2 => /\ IsRow(calls[2], self, cw, "TitleRow", unwrap(self.titles))
                       /\ IsSep(calls[3], self, cw, "Title")
           /\ \A k \in 1..n :
                 /\ IsRow(calls[t + 2 * k], self, cw, "Row", self.rows[k])
                 /\ k < n => IsSep(calls[t + 2 * k + 1], self, cw, "Intern")
           /\ IsSep(calls[Len(calls)], self, cw, "Bottom")
           /\ last.flushes = 1
           /\ last.ret = "Ok"

C1_Witness ==
    /\ last.op = "print"
    /\ format = FORMAT_DEFAULT
    /\ titles # None
    /\ Len(rows) = 3
    /\ rows[1] # rows[2]

CellWidthAt(row, i) == IF i <= Len(row) THEN row[i].width ELSE 0

SetMax(S) == CHOOSE m \in S : \A x \in S : x <= m

\* C2: the width used for a rendered column is the maximum of the cell
\* widths at that column over the title row and all body rows, a missing
\* cell counting 0.
C2_ColumnWidth ==
    IsPrint =>
        LET self == unwrap(last.slice)
        IN \A i \in 1..Len(last.col_width) :
              last.col_width[i] =
                  SetMax({IF self.titles # None
                          THEN CellWidthAt(unwrap(self.titles), i) ELSE 0}
                         \cup {CellWidthAt(self.rows[k], i) :
                                  k \in 1..Len(self.rows)})

\* A column whose title cell is the widest, with a row that has no cell there
C2_Witness ==
    /\ last.op = "print"
    /\ titles # None
    /\ \E i \in 1..Len(last.col_width) :
          /\ i <= Len(unwrap(titles))
          /\ \E k \in 1..Len(rows) : Len(rows[k]) < i
          /\ \E k \in 1..Len(rows) : Len(rows[k]) >= i
          /\ \A k \in 1..Len(rows) :
                CellWidthAt(rows[k], i) < CellWidthAt(unwrap(titles), i)
          /\ last.col_width[i] = CellWidthAt(unwrap(titles), i)

\* C3: the number of columns rendered is the maximum length over the body
\* rows and the title row.
C3_ColumnCount ==
    IsPrint =>
        LET self == unwrap(last.slice)
        IN Len(last.col_width) =
              SetMax({IF self.titles # None THEN Len(unwrap(self.titles)) ELSE 0}
                     \cup {Len(self.rows[k]) : k \in 1..Len(self.rows)})

\* The line of the cell a print is about, and the fill it leaves
PrintedLine ==
    IF cellOut.idx < Len(cell.c.content)
    THEN cell.c.content[cellOut.idx + 1] ELSE <<>>

PrintedFill == cellOut.col_width - UnicodeWidthStr_width(PrintedLine)

FillBefore ==
    CASE cell.c.align = "LEFT" -> 0
      [] cell.c.align = "RIGHT" -> PrintedFill
      [] cell.c.align = "CENTER" -> PrintedFill \div 2

Padded(before, after) ==
    Flat(cellOut.writes) = Fill(" ", before) \o PrintedLine \o Fill(" ", after)

IsCellPrint == cellOut.op = "print" /\ cellOut.col_width >= Cell_get_width(cell.c)

C5_HeightAtLeastOne == cell.built => Cell_get_height(cell.c) >= 1

\* The parent of item k of the forest built (items counted from 1 here)
ParentOf(k) == unwrap(nodes[k].parent) + 1

\* Item k is the last entry of its parent's child list
IsLastChild(k) ==
    LET children == nodes[ParentOf(k)].children
    IN children # <<>> /\ children[Len(children)] = k - 1

\* Item k's ancestors below the root, from the top down, then item k itself:
\* nothing for a root
RECURSIVE ChainOf(_)
ChainOf(k) ==
    IF nodes[k].parent = None THEN <<>> ELSE Append(ChainOf(ParentOf(k)), k)

\* The prefix the forest gives item k
ForestPrefix(k) ==
    LET chain == ChainOf(k)
    IN Concat([j \in 1..Len(chain) |->
           IF j < Len(chain)
           THEN (IF IsLastChild(chain[j]) THEN EMPTY ELSE PIPE)
           ELSE (IF IsLastChild(k) THEN EDGE ELSE BRANCH)])

\* The number of ancestors of item k
RECURSIVE Ancestors(_)
Ancestors(k) ==
    IF nodes[k].parent = None THEN 0 ELSE 1 + Ancestors(ParentOf(k))

\* C6: the prefix returned for an item with k ancestors is k groups of three
\* characters: group j < k is EMPTY if the item's ancestor at depth j+1 is the
\* last entry of its parent's child list and PIPE otherwise, and the last
\* group is EDGE if the item is the last entry of its parent's child list and
\* BRANCH otherwise. A root has the empty prefix.
C6_PrefixStructure ==
    pc = "done" =>
        \A k \in 1..Len(nodes) :
            /\ Len(prefixes[k]) = 3 * Ancestors(k)
            /\ prefixes[k] = ForestPrefix(k)

\* A call on opaque items has returned a prefix of two groups to an item
\* whose parent is not its own parent's last child, and a one-group prefix to
\* an item that is not the last child
C6_Witness ==
    /\ pc = "done"
    /\ pred.kind = "rel"
    /\ \E k \in 1..Len(nodes) :
          /\ Ancestors(k) = 2
          /\ IsLastChild(k)
          /\ ~IsLastChild(ParentOf(k))
          /\ prefixes[k] = PIPE \o EDGE
          /\ prefixes[ParentOf(k)] = BRANCH

\* C7: for "1", "1/2", "1/2/3", "1/4", "5", "5/6" and the path predicate the
\* prefixes returned are "", " |-", " |  `-", " `-", "", " `-" in the box
\* glyphs.
C7_Example ==
    (pc = "done" /\ pred.kind = "path" /\ items = ExampleItems) =>
        prefixes = << <<>>,
                      <<" ", "U+251C", "U+2500">>,
                      <<" ", "U+2502", " ", " ", "U+2514", "U+2500">>,
                      <<" ", "U+2514", "U+2500">>,
                      <<>>,
                      <<" ", "U+2514", "U+2500">> >>

C7_Witness ==
    /\ pc = "done"
    /\ pred.kind = "path"
    /\ items = ExampleItems
    /\ Len(prefixes) = 6

\* C8: for every finite list of items and every predicate, provide_prefix
\* indexes nothing out of range, ends, and returns one prefix per item, the
\* prefix of item k in place k.
C8_Terminates ==
    /\ [](pc = "make_tree" /\ current # None =>
              /\ unwrap(current) < next_i
              /\ unwrap(current) < Len(nodes))
    /\ [](pc = "write_level" =>
              \A k \in 1..Len(nodes) : \A m \in 1..Len(nodes[k].children) :
                  nodes[k].children[m] < Len(nodes))
    /\ [](pc = "done" =>
              /\ Len(prefixes) = Len(items)
              /\ \A k \in 1..Len(items) :
                    prefixes[k] = level_to_string(nodes[k].level))
    /\ <>(pc = "done")

\* A call on the most items, the loop having climbed from a node to the root,
\* has returned
C8_Witness ==
    /\ pc = "done"
    /\ Len(items) = MaxItems
    /\ Len(prefixes) = MaxItems
    /\ nodes[2].parent = Some(0)
    /\ nodes[3].parent = Some(1)
    /\ nodes[4].parent = None

\* C9: table.slice(a..b).slice(c..d) renders the bytes of
\* table.slice(a+c..a+d), and has the table's title and format.
C9_SliceCompose ==
    last.op = "slice_slice_print" =>
        LET a == last.args[1]
            c == last.args[3]
            d == last.args[4]
            direct == Slice_slice(as_ref(format, titles, rows), a + c, a + d)
        IN /\ Bytes(last) = Bytes(TableSlice_print(direct))
           /\ unwrap(last.slice).titles = titles
           /\ unwrap(last.slice).format = format
           /\ unwrap(last.slice).rows = SubSeq(rows, a + c + 1, a + d)

\* Both ranges start after the first row and the slice is not empty
C9_Witness ==
    /\ last.op = "slice_slice_print"
    /\ last.args = <<1, 3, 1, 2>>
    /\ rows[1] # rows[3] /\ rows[2] # rows[3]
    /\ titles # None

\* C10: set_element on a row that does not exist returns "Cannot find row",
\* on a column the row has not "Cannot find cell", and in both cases leaves
\* format, title and rows as they were.
C10_SetElementNotFound ==
    [][\A e \in ElementInputs, c \in 0..MaxCols, r \in 0..MaxRows :
          SetElement(e, c, r) =>
              /\ r >= Len(rows) =>
                    /\ last'.ret = "Cannot find row"
                    /\ UNCHANGED <<format, titles, rows>>
              /\ (r < Len(rows) /\ c >= Len(rows[r + 1])) =>
                    /\ last'.ret = "Cannot find cell"
                    /\ UNCHANGED <<format, titles, rows>>]_vars

C10_Witness ==
    /\ last.op = "set_element"
    /\ last.ret = "Cannot find cell"
    /\ Len(rows) = 2

C10_WitnessRow ==
    /\ last.op = "set_element"
    /\ last.ret = "Cannot find row"
    /\ Len(rows) = 2

\* after is before with the element at 0-based index gone, the others in
\* their order
Removed(before, after, index) ==
    /\ Len(after) = Len(before) - 1
    /\ \A k \in 1..Len(after) :
          after[k] = IF k <= index THEN before[k] ELSE before[k + 1]

\* after is before with e at 0-based position at, the others in their order
Inserted(before, after, at, e) ==
    /\ Len(after) = Len(before) + 1
    /\ after[at + 1] = e
    /\ \A k \in 1..Len(before) :
          before[k] = IF k <= at THEN after[k] ELSE after[k + 1]

\* C11: remove_row (remove_cell) at an index past the end changes nothing;
\* at an index in range it removes exactly that row (cell) and keeps the
\* order of the others.
C11_Remove ==
    [][/\ \A index \in 0..(MaxRows + 1) :
             RemoveRow(index) =>
                 /\ UNCHANGED <<format, titles>>
                 /\ IF index >= Len(rows) THEN rows' = rows
                    ELSE Removed(rows, rows', index)
       /\ \A index \in 0..(MaxCols + 1) :
             RowRemoveCell(index) =>
                 IF index >= Len(rowObj) THEN rowObj' = rowObj
                 ELSE Removed(rowObj, rowObj', index)]_vars

\* remove_row with an index past the end has returned, the table holding
\* rows
C11_Witness ==
    /\ last.op = "remove_row"
    /\ Len(rows) = 2
    /\ last.args[1] > Len(rows)

\* remove_cell has removed the first of two cells
C11_WitnessCell ==
    /\ rowOut.op = "remove_cell"
    /\ rowOut.args[1] = 0
    /\ Len(rowObj) = 1

\* C12: insert_row (insert_cell) puts the element at index when index is
\* less than the length and at the end otherwise; the length grows by one
\* and the others keep their order.
C12_Insert ==
    [][/\ \A index \in 0..(MaxRows + 1) : \A r \in RowInputs :
             InsertRow(index, r) =>
                 Inserted(rows, rows',
                          IF index < Len(rows) THEN index ELSE Len(rows), r)
       /\ \A index \in 0..(MaxCols + 1) : \A c \in CellInputs :
             RowInsertCell(index, c) =>
                 Inserted(rowObj, rowObj',
                          IF index < Len(rowObj) THEN index ELSE Len(rowObj),
                          c)]_vars

\* insert_cell has put a cell in front of another
C12_Witness ==
    /\ rowOut.op = "insert_cell"
    /\ rowOut.args[1] = 0
    /\ Len(rowObj) = 2
    /\ rowObj[1] = rowOut.args[2]
    /\ rowObj[2] # rowObj[1]

\* insert_row with an index past the end has appended the row
C12_WitnessRow ==
    /\ last.op = "insert_row"
    /\ last.args[1] > Len(rows)
    /\ Len(rows) = 2
    /\ rows[2] = last.args[2]

\* The cells at column of the rows that have one, in the rows' order
RECURSIVE CellsOfColumn(_, _)
CellsOfColumn(rs, column) ==
    IF rs = <<>> THEN <<>>
    ELSE (IF column < Len(Head(rs)) THEN <<Head(rs)[column + 1]>> ELSE <<>>)
         \o CellsOfColumn(Tail(rs), column)

\* C13: iterating column_iter(c) yields, in the rows' order, the cell at
\* column c of every row that has one.
C13_ColumnIterAllRows ==
    last.op = "column_iter" =>
        last.cells = CellsOfColumn(rows, last.args[1])

\* The writes Table::print issues to a sink that takes them all
AllWrites == WritesOf(TableSlice_print(unwrap(last.slice)).calls)

C16_ContentRoundTrip ==
    cell.built => Cell_get_content(cell.c) = cell.string

\* The calls of kind op among ops, in order
OpsOfKind(ops, op) == SelectSeq(ops, LAMBDA o : o.op = op)

\* C17: when the sink answers attr or reset with NotSupported or
\* ColorOutOfRange, print_term goes on: every attribute of the cell is
\* applied in order, the line is written, reset is called, and the call
\* returns Ok; the call fails when, and only when, the sink answers with
\* another error.
C17_UnsupportedIgnored ==
    cellOut.op = "print_term" =>
        LET style == cell.c.style
            other(res) == res \notin {"Ok", "NotSupported", "ColorOutOfRange"}
            fails == \/ \E k \in 1..Len(style) : other(cellOut.attr_res[k])
                     \/ cellOut.write_res # "Ok"
                     \/ other(cellOut.reset_res)
        IN IF fails THEN cellOut.ret = "Err"
           ELSE /\ cellOut.ret = "Ok"
                /\ [k \in 1..Len(style) |->
                       OpsOfKind(cellOut.ops, "attr")[k].arg[1]] = style
                /\ Len(OpsOfKind(cellOut.ops, "attr")) = Len(style)
                /\ [k \in 1..Len(cellOut.writes) |->
                       OpsOfKind(cellOut.ops, "write")[k].arg] = cellOut.writes
                /\ Len(OpsOfKind(cellOut.ops, "write")) = Len(cellOut.writes)
                /\ cellOut.ops[Len(cellOut.ops)].op = "reset"

\* A cell with two attributes has been printed to a sink that answered the
\* first with NotSupported, the second and reset with ColorOutOfRange
C17_Witness ==
    /\ cellOut.op = "print_term"
    /\ Len(cell.c.style) = 2
    /\ cellOut.attr_res = <<"NotSupported", "ColorOutOfRange">>
    /\ cellOut.reset_res = "ColorOutOfRange"
    /\ cellOut.ret = "Ok"
    /\ Flat(cellOut.writes) # <<>>

\* The separator line a print_line_separator call delivered, without its
\* line end, and the separator the format holds for the call's position
SepLine ==
    LET out == Flat(last.calls[1].writes)
    IN SubSeq(out, 1, Len(out) - Len(NEWLINE))

SepOfPos ==
    LET pos == last.args[2]
    IN CASE pos = "Top" -> format.top_sep
         [] pos = "Bottom" -> format.bottom_sep
         [] pos = "Intern" -> format.lsep
         [] pos = "Title" -> IF format.tsep # None THEN format.tsep
                             ELSE format.lsep

\* The pieces of s between the occurrences of ch
RECURSIVE SplitOn(_, _)
SplitOn(s, ch) ==
    IF \A k \in 1..Len(s) : s[k] # ch THEN <<s>>
    ELSE LET k == CHOOSE k \in 1..Len(s) :
                      s[k] = ch /\ \A m \in 1..(k - 1) : s[m] # ch
         IN <<SubSeq(s, 1, k - 1)>> \o SplitOn(SubSeq(s, k + 1, Len(s)), ch)

Count(s, ch) == Len(SelectSeq(s, LAMBDA x : x = ch))

RECURSIVE Sum(_)
Sum(ns) == IF ns = <<>> THEN 0 ELSE Head(ns) + Sum(Tail(ns))

\* C18: for every format and position with a configured separator, the
\* separator line holds, for each column, the fill character exactly
\* (column width + left padding + right padding) times: in all, and column
\* by column between the junctions when a column separator is configured.
C18_FillPerColumn ==
    (last.op = "print_line_separator" /\ SepOfPos # None) =>
        LET sep == unwrap(SepOfPos)
            col_width == last.args[1]
            pads == format.pad_left + format.pad_right
            cols == SplitOn(SepLine, sep.junc)
        IN /\ Count(SepLine, sep.line)
                = Sum([j \in 1..Len(col_width) |-> col_width[j] + pads])
           /\ (format.csep # None /\ col_width # <<>>) =>
                 /\ Len(cols) = Len(col_width)
                 /\ \A j \in 1..Len(cols) :
                       Count(cols[j], sep.line) = col_width[j] + pads

\* The separator lines printed: by print_line_separator with the format's
\* separator, column separator and borders, or by LineSeparator::print with
\* those it was given
SepPrinted ==
    \/ last.op = "print_line_separator" /\ SepOfPos # None
    \/ last.op = "LineSeparator_print"

SepUsed ==
    IF last.op = "LineSeparator_print" THEN last.args[2] ELSE unwrap(SepOfPos)

HasColsep ==
    IF last.op = "LineSeparator_print" THEN last.args[3] ELSE format.csep # None

HasLborder ==
    IF last.op = "LineSeparator_print" THEN last.args[4]
    ELSE format.lborder # None

HasRborder ==
    IF last.op = "LineSeparator_print" THEN last.args[5]
    ELSE format.rborder # None

\* C19: in a separator line the junction character stands between two
\* adjacent columns exactly when a column separator is configured, and never
\* after the last column; the left junction character stands at the start
\* exactly when a left border is configured, the right one at the end exactly
\* when a right border is configured.
C19_Junctions ==
    SepPrinted =>
        LET sep == SepUsed
            n == Len(last.args[1])
            line == SepLine
            first == IF HasLborder THEN 2 ELSE 1
            final == IF HasRborder THEN Len(line) - 1 ELSE Len(line)
            columns == SubSeq(line, first, final)
        IN /\ Count(line, sep.ljunc) = (IF HasLborder THEN 1 ELSE 0)
           /\ HasLborder => line[1] = sep.ljunc
           /\ Count(line, sep.rjunc) = (IF HasRborder THEN 1 ELSE 0)
           /\ HasRborder => line[Len(line)] = sep.rjunc
           /\ Count(line, sep.junc) = (IF HasColsep /\ n > 0 THEN n - 1 ELSE 0)
           /\ columns # <<>> =>
                 /\ columns[1] # sep.junc
                 /\ columns[Len(columns)] # sep.junc

\* A line over three columns of a format with both borders and a column
\* separator
C19_Witness ==
    /\ last.op = "print_line_separator"
    /\ SepOfPos # None
    /\ Len(last.args[1]) = 3
    /\ format.csep # None
    /\ format.lborder # None
    /\ format.rborder # None
    /\ Count(SepLine, unwrap(SepOfPos).junc) = 2

\* A line over two columns with a left border only and no column separator
C19_WitnessLeftOnly ==
    /\ last.op = "LineSeparator_print"
    /\ Len(last.args[1]) = 2
    /\ HasLborder /\ ~HasRborder /\ ~HasColsep
    /\ SepLine[1] = SepUsed.ljunc

\* C20: at position Title the separator used is the Title separator when one
\* is set and the Intern separator otherwise; Top, Intern and Bottom use their
\* own separator only.  When that separator is unset, print_line_separator
\* writes nothing, no character and no line end.
C20_EffectiveSeparator ==
    last.op = "print_line_separator" =>
        LET pos == last.args[2]
            own == CASE pos = "Top" -> format.top_sep
                     [] pos = "Title" -> format.tsep
                     [] pos = "Intern" -> format.lsep
                     [] pos = "Bottom" -> format.bottom_sep
            eff == IF pos = "Title" /\ own = None THEN format.lsep ELSE own
            out == Flat(last.calls[1].writes)
        IN IF eff = None THEN out = <<>>
           ELSE LET sep == unwrap(eff)
                IN /\ Len(out) >= Len(NEWLINE)
                   /\ SubSeq(out, Len(out) - Len(NEWLINE) + 1, Len(out))
                        = NEWLINE
                   /\ \A k \in 1..(Len(out) - Len(NEWLINE)) :
                         out[k] \in {sep.line, sep.junc, sep.ljunc, sep.rjunc}
                   /\ last.args[1] # <<>> => Count(out, sep.line) > 0

\* A Title line printed with the Intern separator, no Title separator set
C20_Witness ==
    /\ last.op = "print_line_separator"
    /\ last.args[2] = "Title"
    /\ format.tsep = None
    /\ format.lsep # None
    /\ Len(last.args[1]) = 2
    /\ Count(Flat(last.calls[1].writes), unwrap(format.lsep).line) > 0

\* A position without separator: nothing was written
C20_WitnessUnset ==
    /\ last.op = "print_line_separator"
    /\ last.args[2] = "Title"
    /\ format.tsep = None
    /\ format.lsep = None
    /\ format.top_sep # None
    /\ last.calls[1].writes = <<>>

\* The lines of the bytes a print delivered: the pieces that end in "\n"
Lines(bytes) ==
    LET pieces == SplitOn(bytes, "\n")
    IN SubSeq(pieces, 1, Len(pieces) - 1)

NoSpaces(s) == SelectSeq(s, LAMBDA x : x # " ")

\* Line i of the printed row without its borders
RowLineInner(i) ==
    LET fmt == rowOut.args[1]
        line == Lines(Flat(rowOut.writes))[i]
    IN SubSeq(line, IF fmt.lborder # None THEN 2 ELSE 1,
              IF fmt.rborder # None THEN Len(line) - 1 ELSE Len(line))

\* The text line i of the row has at column j: none when the row has no cell
\* there or the cell has fewer lines
SlotText(j, i) ==
    IF j <= Len(rowObj) /\ i <= Len(rowObj[j].content)
    THEN rowObj[j].content[i] ELSE <<>>

\* C21: Row::print writes exactly max(1, maximum cell height) lines, one
\* even for an empty row; every line has one slot for each entry of
\* col_width, and a slot is blank when the row has no cell at the column or
\* the cell has fewer lines than the line index.
C21_RowLines ==
    rowOut.op = "print" =>
        LET fmt == rowOut.args[1]
            n == Len(rowOut.args[2])
            out == Flat(rowOut.writes)
            heights == {1} \cup {Len(rowObj[k].content) : k \in 1..Len(rowObj)}
            h == CHOOSE x \in heights : \A y \in heights : y <= x
        IN /\ out # <<>> /\ out[Len(out)] = "\n"
           /\ Len(Lines(out)) = h
           /\ \A i \in 1..h :
                 /\ NoSpaces(SelectSeq(RowLineInner(i), LAMBDA x : x # "|"))
                      = Concat([j \in 1..n |-> SlotText(j, i)])
                 /\ (fmt.csep # None /\ n > 0) =>
                       LET slots == SplitOn(RowLineInner(i), unwrap(fmt.csep))
                       IN /\ Len(slots) = n
                          /\ \A j \in 1..n : NoSpaces(slots[j]) = SlotText(j, i)

\* An empty row printed over two columns: one line of two blank slots
C21_Witness ==
    /\ rowOut.op = "print"
    /\ rowObj = <<>>
    /\ Len(rowOut.args[2]) = 2
    /\ rowOut.args[1].csep # None
    /\ Len(Lines(Flat(rowOut.writes))) = 1

\* A row of a two-line cell and a one-line cell printed over two columns:
\* the second slot of the second line is blank
C21_WitnessBlankSlot ==
    /\ rowOut.op = "print"
    /\ Len(rowObj) = 2
    /\ Len(rowObj[1].content) = 2
    /\ Len(rowObj[2].content) = 1
    /\ Len(rowOut.args[2]) = 2
    /\ Len(Lines(Flat(rowOut.writes))) = 2

\* The alignment of the cell the row prints at column j
SlotAlign(j) == IF j <= Len(rowObj) THEN rowObj[j].align ELSE "LEFT"

\* The fill that aligns the text of line i in column j of width w: before
\* and after the text
SlotFill(j, i, w) ==
    LET text_len == UnicodeWidthStr_width(SlotText(j, i))
        nfill == IF text_len < w THEN w - text_len ELSE 0
        before == CASE SlotAlign(j) = "LEFT" -> 0
                    [] SlotAlign(j) = "RIGHT" -> nfill
                    [] SlotAlign(j) = "CENTER" -> nfill \div 2
    IN [before |-> before, after |-> nfill - before]

\* The slot of column j in line i as the claim describes it; trailing: with
\* the fill after the text
SlotExpected(j, i, trailing) ==
    LET fmt == rowOut.args[1]
        f == SlotFill(j, i, rowOut.args[2][j])
    IN Fill(" ", fmt.pad_left) \o Fill(" ", f.before) \o SlotText(j, i)
       \o (IF trailing THEN Fill(" ", f.after) ELSE <<>>)
       \o Fill(" ", fmt.pad_right)

\* C22: in Row::print the fill after the text of a cell is left out exactly
\* in the last column of a line when the format has no right border; every
\* other column, and the last one when there is a right border, is filled to
\* the column width; the right padding follows the cell in every case.
C22_TrailingFill ==
    rowOut.op = "print" =>
        LET fmt == rowOut.args[1]
            n == Len(rowOut.args[2])
        IN \A i \in 1..Len(Lines(Flat(rowOut.writes))) :
              RowLineInner(i)
                = Concat([j \in 1..n |->
                      SlotExpected(j, i, j < n \/ fmt.rborder # None)
                      \o (IF j < n /\ fmt.csep # None
                          THEN <<unwrap(fmt.csep)>> ELSE <<>>)])

\* A row whose last cell is narrower than its column, printed with a column
\* separator and no right border: the line ends with the text and the
\* right padding
C22_Witness ==
    /\ rowOut.op = "print"
    /\ rowOut.args[1].rborder = None
    /\ rowOut.args[1].csep # None
    /\ rowOut.args[1].pad_right = 1
    /\ rowOut.args[2] = <<4, 4>>
    /\ Len(rowObj) = 2
    /\ rowObj[2] = Cell_new(StrA)
    /\ SlotFill(2, 1, 4).after = 3
    /\ Lines(Flat(rowOut.writes))[1][Len(Lines(Flat(rowOut.writes))[1]) - 1] = "a"

\* The same row printed with a right border: the last column is filled
C22_WitnessBorder ==
    /\ rowOut.op = "print"
    /\ rowOut.args[1].rborder # None
    /\ rowOut.args[2] = <<4, 4>>
    /\ Len(rowObj) = 2
    /\ rowObj[2] = Cell_new(StrA)

\* The first candidate that is_parent_of accepts for item k (items counted
\* from 1 here), the candidates being item c, then c's parent in the forest,
\* and so on; c = 0: no candidate is left
RECURSIVE FirstParent(_, _)
FirstParent(c, k) ==
    IF c = 0 THEN None
    ELSE IF is_parent_of(items[c], items[k]) THEN Some(c - 1)
    ELSE FirstParent(IF nodes[c].parent = None THEN 0 ELSE ParentOf(c), k)

\* C23: in the parent-discovery pass the parent of an item is the first
\* candidate that is_parent_of accepts, starting from the item processed
\* before it and going on to each candidate's own parent, and the item is a
\* root when the chain is exhausted; on adding the item its index is appended
\* to that parent's child list and the item is the candidate the next item
\* starts from.
C23_ParentDiscovery ==
    /\ [](\A k \in 1..Len(nodes) : nodes[k].parent = FirstParent(k - 1, k))
    /\ [][Len(nodes') = Len(nodes) + 1 =>
            LET k == Len(nodes')
                new == nodes'[k]
            IN /\ current' = Some(k - 1)
               /\ new.parent = current
               /\ \A m \in 1..Len(nodes) :
                     /\ nodes'[m].parent = nodes[m].parent
                     /\ nodes'[m].children =
                          IF new.parent = Some(m - 1)
                          THEN Append(nodes[m].children, k - 1)
                          ELSE nodes[m].children]_vars

\* A forest is built in which the parent of an item is neither the item
\* before it nor that item's parent: it was found after two climbs
C23_Witness ==
    /\ pc = "done"
    /\ pred.kind = "rel"
    /\ \E k \in 1..Len(nodes) :
          /\ nodes[k].parent # None
          /\ ParentOf(k) < k - 1
          /\ nodes[k - 1].parent # None
          /\ ParentOf(k) # ParentOf(k - 1)

\* C29: in the forest built, the parent of a node is absent or an index
\* smaller than the node's own; every child list is strictly increasing; and
\* j is in the child list of node i exactly when the parent of node j is i,
\* and then once.
C29_ForestShape ==
    \A k \in 1..Len(nodes) :
        /\ nodes[k].parent # None => unwrap(nodes[k].parent) < k - 1
        /\ \A m \in 1..(Len(nodes[k].children) - 1) :
              nodes[k].children[m] < nodes[k].children[m + 1]
        /\ \A j \in 1..Len(nodes) :
              /\ (\E m \in 1..Len(nodes[k].children) :
                      nodes[k].children[m] = j - 1)
                   <=> nodes[j].parent = Some(k - 1)
        /\ \A m \in 1..Len(nodes[k].children) :
              nodes[k].children[m] < Len(nodes)

\* A forest of the most items is built, with a node of two children and a
\* node that has a grandparent
C29_Witness ==
    /\ pc = "done"
    /\ Len(nodes) = MaxItems
    /\ \E k \in 1..Len(nodes) : Len(nodes[k].children) = 2
    /\ \E k \in 1..Len(nodes) : Ancestors(k) = 2

\* The specifier of the style_spec call made
GivenSpec == cellOut.spec

\* Character k of the specifier is read as a colour: the character before it
\* is 'F' or 'B' and was not itself read as a colour
RECURSIVE Armed(_)
Armed(k) == k > 1 /\ GivenSpec[k - 1] \in {"F", "B"} /\ ~Armed(k - 1)

ColourLetters ==
    {"r", "R", "b", "B", "g", "G", "y", "Y", "c", "C", "m", "M", "w", "W",
     "d", "D"}

\* The attributes character k of the specifier adds
AttrsOfChar(k) ==
    LET ch == GivenSpec[k]
    IN IF Armed(k)
       THEN IF ch \in ColourLetters
            THEN <<(IF GivenSpec[k - 1] = "F" THEN "ForegroundColor("
                    ELSE "BackgroundColor(") \o unwrap(color_of(ch)) \o ")">>
            ELSE <<>>
       ELSE CASE ch = "b" -> <<"Bold">>
              [] ch = "i" -> <<"Italic(true)">>
              [] ch = "u" -> <<"Underline(true)">>
              [] OTHER -> <<>>

\* The alignment tags of the specifier, in order
AlignTags ==
    SelectSeq([k \in 1..Len(GivenSpec) |->
                  IF ~Armed(k) /\ GivenSpec[k] \in {"c", "l", "r"}
                  THEN GivenSpec[k] ELSE "-"],
              LAMBDA x : x # "-")

\* C24: the style and the alignment style_spec(spec) leaves depend on spec
\* only: the attributes are those the characters of spec add, in order,
\* where the character after an 'F' or 'B' tag is read as a colour (one
\* colour attribute if it is a colour letter, nothing otherwise) and 'b',
\* 'i', 'u' read as tags add Bold, Italic, Underline; the alignment is that
\* of the last 'c', 'l', 'r' read as a tag, LEFT without one; other
\* characters add nothing, and the content is left as it was.
C24_StyleSpec ==
    /\ [](cellOut.op = "style_spec" =>
            /\ cell.c.style
                 = Concat([k \in 1..Len(GivenSpec) |-> AttrsOfChar(k)])
            /\ cell.c.align =
                 (IF AlignTags = <<>> THEN "LEFT"
                  ELSE CASE AlignTags[Len(AlignTags)] = "c" -> "CENTER"
                         [] AlignTags[Len(AlignTags)] = "l" -> "LEFT"
                         [] AlignTags[Len(AlignTags)] = "r" -> "RIGHT"))
    /\ [][cellOut'.op = "style_spec" =>
            /\ cell'.c.content = cell.c.content
            /\ cell'.c.width = cell.c.width]_vars

\* style_spec("FzB") on a cell built with two lines: no attribute and LEFT
C24_Witness ==
    /\ cellOut.op = "style_spec"
    /\ cell.built
    /\ cellOut.spec = <<"F", "z", "B">>
    /\ cell.c.style = <<>>
    /\ cell.c.align = "LEFT"

\* style_spec("FBr"): 'B' read as a colour, 'r' as the alignment
C24_WitnessColour ==
    /\ cellOut.op = "style_spec"
    /\ cellOut.spec = <<"F", "B", "r">>
    /\ cell.c.style = <<"ForegroundColor(BRIGHT_BLUE)">>
    /\ cell.c.align = "RIGHT"

\* C25: print_term applies all of the cell's attributes to the sink, in
\* order, before any byte of the line is written, and issues a reset after
\* the line is written; no call that applied an attribute returns, with
\* success or with an error, without the reset having been issued.
C25_ScopedReset ==
    cellOut.op = "print_term" =>
        LET ops == cellOut.ops
            applied == \E k \in 1..Len(ops) :
                          ops[k].op = "attr" /\ ops[k].res = "Ok"
            written == \E k \in 1..Len(ops) : ops[k].op = "write"
        IN /\ \A k \in 1..Len(ops), m \in 1..Len(ops) :
                 (ops[k].op = "attr" /\ ops[m].op = "write") => k < m
           /\ written =>
                 [k \in 1..Len(cell.c.style) |->
                     OpsOfKind(ops, "attr")[k].arg[1]] = cell.c.style
           /\ \A k \in 1..Len(ops), m \in 1..Len(ops) :
                 (ops[k].op = "write" /\ ops[m].op = "reset") => k < m
           /\ applied => ops[Len(ops)].op = "reset"

\* C26: in tabprint::Table, set_element(element, column, row) with
\* column < num_cols and row >= the number of rows grows the table with
\* blank rows, stores the element at the requested row and column, and
\* returns Ok without panicking.
C26_TabprintGrows ==
    (/\ tabOut.op = "set_element"
     /\ tabOut.args[2] < tab.num_cols
     /\ tabOut.args[3] >= tabOut.rows_before) =>
        /\ tabOut.ret = "Ok"
        /\ Len(tab.rows) > tabOut.args[3]
        /\ tab.rows[tabOut.args[3] + 1][tabOut.args[2] + 1] = tabOut.args[1]

\* The display widths of the lines of a print
LineWidths(p) ==
    LET lines == Lines(Bytes(p))
    IN {UnicodeWidthStr_width(lines[k]) : k \in 1..Len(lines)}

\* C27: for every table and every format with a right border, all the lines
\* Table::print writes (separator lines, title lines, row lines) have the
\* same display width, whatever the padding, the column separator, the
\* length of the title and the lengths of the rows.
C27_LinesSameWidth ==
    (last.op = "print" /\ format.rborder # None) =>
        Cardinality(LineWidths(last)) <= 1

\* A fresh Table with the title, the format and copies of the given rows:
\* Table::new, set_format, set_titles, add_row for each
RECURSIVE FreshRows(_, _)
FreshRows(trows, copies) ==
    IF copies = <<>> THEN trows
    ELSE FreshRows(Table_add_row(trows, Head(copies)), Tail(copies))

\* C28: table.slice(a..b) renders the bytes a fresh Table with the same
\* title, the same format and copies of rows a..b-1 renders: the rows outside
\* the range count neither for the number of columns nor for the widths.
C28_SliceAsFreshTable ==
    last.op = "slice_print" =>
        LET a == last.args[1]
            b == last.args[2]
            fresh == FreshRows(<<>>, [k \in 1..(b - a) |-> rows[a + k]])
            printed == TableSlice_print(
                           as_ref(format, titles, shrink_to_fit(fresh)))
        IN /\ Bytes(last) = Bytes(printed)
           /\ last.col_width = printed.col_width

\* A slice that leaves out a first row with more cells, and wider ones,
\* than the rows it keeps
C28_Witness ==
    /\ last.op = "slice_print"
    /\ last.args = <<1, 2>>
    /\ Len(rows) = 3
    /\ Len(rows[1]) = 2
    /\ Len(rows[2]) = 1
    /\ Len(last.col_width) = 1
    /\ titles = None

\* C30: print_align delivers the whole of the left fill, the text and the
\* right fill to the sink, or returns an error: with a sink whose write takes
\* only part of the bytes offered, no byte of a cell line is silently dropped.
C30_AllDeliveredOrError ==
    cellOut.op = "print_into" =>
        \/ cellOut.ret = "Err"
        \/ cellOut.delivered = as_bytes(Flat(cellOut.writes))

====
